---------------------------- MODULE Spec2Model ----------------------------
(***************************************************************************)
(* CPU scheduling simulator (lib/scheduler.ts): simulateSchedule and the   *)
(* four schedulers scheduleFCFS, scheduleSJF, schedulePriority and         *)
(* scheduleRoundRobin, followed by computeMetrics.  One action per loop    *)
(* iteration of the schedulers; pure helpers are operators.                *)
(***************************************************************************)
EXTENDS Integers, Sequences, FiniteSets, TLC

\* ------------------------------------------------------------------ bounds
MaxProcs == 3
MaxArrival == 2
MaxBurst == 3
MaxPriority == 1
MaxQuantum == 2

\* Longer lists of processes that arrive together (SpecManyProcesses).
ManyProcs == 7
ManyArrival == 1
ManyBurst == 2

\* Lists whose pids are not in list order (SpecPermuted).
PermutedArrival == 1
PermutedBurst == 2

\* Descriptors handed to validateProcess (SpecValidate): pids of up to
\* MaxPidLen characters, numbers from -MaxField to MaxField.
MaxPidLen == 2
MaxField == 1

\* Quanta tried on the example set and its sub-lists (SpecExample).
ExampleQuantum == 3

\* Rows the Add Process button fills the table to.
MaxRows == 2

\* Rows of the table, from the top, whose cells are edited.
MaxEditedRows == 1

\* Timelines the Gantt chart animates: of lists of up to GanttProcs processes
\* arriving at 0..GanttArrival with bursts 1..GanttBurst.
GanttProcs == 2
GanttArrival == 2
GanttBurst == 2

\* Segments a Round Robin run is followed for when the quantum may be
\* non-positive (SpecNonPositiveQuantum): such a run has no last segment.
MaxSlices == 6

\* Lists and timelines handed to computeMetrics directly (SpecMetrics).
MetricsProcs == 2
MetricsArrival == 1
MetricsBurst == 2
MetricsSegments == 2
MetricsTime == 2

\* ------------------------------------------------------------------ types
\* GanttSegment.pid is null for an idle period.
null == "null"

\* The pids the process source hands out (`P${n}`), in localeCompare order.
PidNames == <<"P1", "P2", "P3", "P4", "P5", "P6", "P7", "P8", "P9">>

Algorithms == {"FCFS", "SJF", "Priority", "RoundRobin"}

\* A policy token outside the Algorithm type (the default branch of the
\* switch).
UnknownAlgorithm == "Unknown"

\* Default value of the quantum parameter of simulateSchedule.
DefaultQuantum == 2

Process(pid, arrivalTime, burstTime, priority, insertionOrder) ==
    [pid |-> pid, arrivalTime |-> arrivalTime, burstTime |-> burstTime,
     priority |-> priority, insertionOrder |-> insertionOrder]

GanttSegment(pid, start, end) == [pid |-> pid, start |-> start, end |-> end]

\* ------------------------------------------------------------------ inputs
\* Priority the process table gives a new process (addProcess).
DefaultPriority == 1

\* The timing fields of one descriptor that passes validateProcess.  Only
\* schedulePriority reads the priority: the other policies are run on lists
\* that keep the table's default priority.
ValidFields(alg) ==
    [arrivalTime : 0..MaxArrival, burstTime : 1..MaxBurst,
     priority : IF alg = "Priority" THEN 0..MaxPriority ELSE {DefaultPriority}]

\* A process list as the process table builds it: the i-th descriptor has
\* pid P<i> and insertionOrder i - 1; f gives the timing fields.
ProcessList(n, f) ==
    [i \in 1..n |-> Process(PidNames[i], f[i].arrivalTime, f[i].burstTime,
                            f[i].priority, i - 1)]

\* ------------------------------------------------------------------ helpers
Min(a, b) == IF a <= b THEN a ELSE b
Max(a, b) == IF a >= b THEN a ELSE b

\* Math.min(...xs) over a non-empty set of numbers.
MathMin(S) == CHOOSE x \in S : \A y \in S : x <= y

Range(s) == { s[i] : i \in 1..Len(s) }

\* Array.prototype.sort (stable) with the comparator given as the function
\* cmp[a, b] on the elements of s: the element at index i lands after every
\* element that compares lower, and after every equal element that stood
\* before it.
SortBy(s, cmp) ==
    LET rank(i) == 1 + Cardinality({ j \in 1..Len(s) :
                        \/ cmp[s[j], s[i]] < 0
                        \/ cmp[s[j], s[i]] = 0 /\ j < i })
    IN  [k \in 1..Len(s) |-> s[CHOOSE i \in 1..Len(s) : rank(i) = k]]

\* findIndex(x => x.pid === pid), 1-based; 0 stands for -1.
FindIndexByPid(s, pid) ==
    IF \E i \in 1..Len(s) : s[i].pid = pid
    THEN CHOOSE i \in 1..Len(s) : s[i].pid = pid /\ \A j \in 1..(i - 1) : s[j].pid # pid
    ELSE 0

\* remaining.splice(index, 1)
Splice1(s, index) ==
    [k \in 1..(Len(s) - 1) |-> IF k < index THEN s[k] ELSE s[k + 1]]

\* Sum of f[i] over i in 1..n
RECURSIVE SumTo(_, _)
SumTo(f, n) == IF n = 0 THEN 0 ELSE f[n] + SumTo(f, n - 1)

\* ------------------------------------------------------------------ numbers
\* The averages and the utilization are JavaScript numbers (IEEE 754
\* binary64) produced by / and *.  A number is kept as sign, significand
\* (Precision bits, most significant first, leading bit 1) and exponent:
\* its value is (the significand read as a binary integer) * 2^e.

\* Significand bits of a binary64 number.
Precision == 53

Zero == [neg |-> FALSE, m |-> <<>>, e |-> 0]

\* 0 / 0.  No number has a significand with a leading 0.
NaN == [neg |-> FALSE, m |-> <<0>>, e |-> 0]

\* The arithmetic below works on LimbBits bits at a time.
LimbBits == 12

\* The w-bit binary form of v (0 <= v < 2^w), most significant first.
BitsOf(v, w) == [i \in 1..w |-> (v \div 2^(w - i)) % 2]

\* The natural number a short bit sequence stands for.
ValueOf(bits) ==
    SumTo([i \in 1..Len(bits) |-> bits[i] * 2^(Len(bits) - i)], Len(bits))

StripLeadingZeros(bits) ==
    IF \A i \in 1..Len(bits) : bits[i] = 0 THEN <<>>
    ELSE LET first == CHOOSE i \in 1..Len(bits) :
                          bits[i] = 1 /\ \A j \in 1..(i - 1) : bits[j] = 0
         IN  SubSeq(bits, first, Len(bits))

\* Binary digits of a natural number below 2^30, most significant first;
\* <<>> for 0.
BinaryOf(n) == StripLeadingZeros(BitsOf(n, 30))

\* bits + 1
IncBits(bits) ==
    IF \A i \in 1..Len(bits) : bits[i] = 1
    THEN <<1>> \o [i \in 1..Len(bits) |-> 0]
    ELSE LET last == CHOOSE i \in 1..Len(bits) :
                         bits[i] = 0 /\ \A j \in (i + 1)..Len(bits) : bits[j] = 1
         IN  [i \in 1..Len(bits) |->
                 IF i < last THEN bits[i] ELSE IF i = last THEN 1 ELSE 0]

\* bits * k + carry, for a natural number k with 1 <= k < 2^15
RECURSIVE MulBits(_, _, _)
MulBits(bits, k, carry) ==
    IF bits = <<>> THEN BinaryOf(carry)
    ELSE LET w == Min(LimbBits, Len(bits))
             v == ValueOf(SubSeq(bits, Len(bits) - w + 1, Len(bits))) * k + carry
         IN  MulBits(SubSeq(bits, 1, Len(bits) - w), k, v \div 2^w)
                 \o BitsOf(v % 2^w, w)

\* The value bits * 2^e (bits with a leading 1, or empty) rounded to p
\* significant bits, to nearest, ties to even.
RoundBits(neg, bits, e, p) ==
    IF bits = <<>> THEN Zero
    ELSE IF Len(bits) <= p
    THEN [neg |-> neg,
          m |-> bits \o [i \in 1..(p - Len(bits)) |-> 0],
          e |-> e - (p - Len(bits))]
    ELSE LET kept == SubSeq(bits, 1, p)
             guard == bits[p + 1]
             sticky == \E i \in (p + 2)..Len(bits) : bits[i] = 1
             up == guard = 1 /\ (sticky \/ kept[p] = 1)
             r == IF up THEN IncBits(kept) ELSE kept
             e2 == e + Len(bits) - p
         IN  IF Len(r) > p
             THEN [neg |-> neg, m |-> SubSeq(r, 1, p), e |-> e2 + 1]
             ELSE [neg |-> neg, m |-> r, e |-> e2]

\* Long division, LimbBits bits a step: the quotient so far is bits * 2^e
\* and rem (< d < 2^15) is left over.  Stops when the division is exact or
\* two bits past the precision are known; a remainder left then counts as a
\* further 1 bit (it only matters that it is not 0).
RECURSIVE DivBits(_, _, _, _, _)
DivBits(neg, rem, d, bits, e) ==
    IF rem = 0 THEN RoundBits(neg, bits, e, Precision)
    ELSE IF Len(bits) >= Precision + 2
    THEN RoundBits(neg, Append(bits, 1), e - 1, Precision)
    ELSE LET scaled == rem * 2^LimbBits
         IN  DivBits(neg, scaled % d, d,
                     StripLeadingZeros(bits \o BitsOf(scaled \div d, LimbBits)),
                     e - LimbBits)

\* The number n for an integer n.
FromInt(n) ==
    IF n >= 0 THEN RoundBits(FALSE, BinaryOf(n), 0, Precision)
    ELSE RoundBits(TRUE, BinaryOf(-n), 0, Precision)

\* a / b for an integer a and a natural number b (0 only under a = 0).
FDiv(a, b) ==
    IF b = 0 THEN NaN
    ELSE LET mag == IF a >= 0 THEN a ELSE -a
         IN  DivBits(a < 0, mag % b, b, BinaryOf(mag \div b), 0)

\* x * k for a number x and a natural number k.
FMul(x, k) ==
    IF x = NaN THEN NaN
    ELSE IF x = Zero \/ k = 0 THEN Zero
    ELSE RoundBits(x.neg, MulBits(x.m, k, 0), x.e, Precision)

\* a + b + carry for bit sequences a and b of one length and a carry of 0 or 1.
RECURSIVE AddBits(_, _, _)
AddBits(a, b, carry) ==
    IF a = <<>> THEN (IF carry = 1 THEN <<1>> ELSE <<>>)
    ELSE LET w == Min(LimbBits, Len(a))
             v == ValueOf(SubSeq(a, Len(a) - w + 1, Len(a)))
                      + ValueOf(SubSeq(b, Len(b) - w + 1, Len(b))) + carry
         IN  AddBits(SubSeq(a, 1, Len(a) - w), SubSeq(b, 1, Len(b) - w),
                     v \div 2^w)
                 \o BitsOf(v % 2^w, w)

\* The significand of the number x (not Zero) written for the exponent e <= x.e.
ShiftedTo(x, e) == x.m \o [i \in 1..(x.e - e) |-> 0]

\* bits with leading zeros up to the length n.
PadTo(bits, n) == [i \in 1..(n - Len(bits)) |-> 0] \o bits

\* x + y for numbers x >= 0 and y >= 0.
FAdd(x, y) ==
    IF x = Zero THEN y
    ELSE IF y = Zero THEN x
    ELSE LET e == Min(x.e, y.e)
             a == ShiftedTo(x, e)
             b == ShiftedTo(y, e)
             n == Max(Len(a), Len(b))
         IN  RoundBits(FALSE,
                       StripLeadingZeros(AddBits(PadTo(a, n), PadTo(b, n), 0)),
                       e, Precision)

\* x < y for numbers x >= 0 and y >= 0.
FLess(x, y) ==
    IF y = Zero THEN FALSE
    ELSE IF x = Zero THEN TRUE
    ELSE LET e == Min(x.e, y.e)
             n == Max(Len(ShiftedTo(x, e)), Len(ShiftedTo(y, e)))
             a == PadTo(ShiftedTo(x, e), n)
             b == PadTo(ShiftedTo(y, e), n)
         IN  \E i \in 1..n : a[i] < b[i] /\ \A j \in 1..(i - 1) : a[j] = b[j]

\* The literal 0.1.
Tenth == FDiv(1, 10)

\* ------------------------------------------------------------------ comparators
\* Mutant of CompareArrival: equal arrivals are ordered latest insertion first.
CompareArrival_ReverseTie(a, b) ==
    IF a.arrivalTime # b.arrivalTime THEN a.arrivalTime - b.arrivalTime
    ELSE b.insertionOrder - a.insertionOrder

\* Mutant of CompareArrival: no tie-break, so that the stable sort leaves
\* processes that arrive together in list order.
CompareArrival_ListOrderTie(a, b) == a.arrivalTime - b.arrivalTime

\* scheduleFCFS / scheduleRoundRobin: arrival time, then insertion order.
CompareArrival(a, b) ==
    IF a.arrivalTime # b.arrivalTime THEN a.arrivalTime - b.arrivalTime
    ELSE a.insertionOrder - b.insertionOrder

\* Mutant of CompareSJF: the arrival-time tie-break is missing.
CompareSJF_NoArrivalTie(a, b) ==
    IF a.burstTime # b.burstTime THEN a.burstTime - b.burstTime
    ELSE a.insertionOrder - b.insertionOrder

\* scheduleSJF: burst time, then arrival time, then insertion order.
CompareSJF(a, b) ==
    IF a.burstTime # b.burstTime THEN a.burstTime - b.burstTime
    ELSE IF a.arrivalTime # b.arrivalTime THEN a.arrivalTime - b.arrivalTime
    ELSE a.insertionOrder - b.insertionOrder

\* Mutant of ComparePriority: the higher priority number wins.
ComparePriority_HigherWins(a, b) ==
    IF a.priority # b.priority THEN b.priority - a.priority
    ELSE IF a.arrivalTime # b.arrivalTime THEN a.arrivalTime - b.arrivalTime
    ELSE a.insertionOrder - b.insertionOrder

\* schedulePriority: priority number, then arrival time, then insertion order.
ComparePriority(a, b) ==
    IF a.priority # b.priority THEN a.priority - b.priority
    ELSE IF a.arrivalTime # b.arrivalTime THEN a.arrivalTime - b.arrivalTime
    ELSE a.insertionOrder - b.insertionOrder

\* ------------------------------------------------------------------ state
VARIABLES
    processes,      \* the caller's process list (argument of simulateSchedule)
    algorithm,      \* the policy argument
    quantum,        \* the quantum argument
    pc,             \* "call", the running scheduler, "done" or "threw";
                    \* "validate" and "validated" around validateProcess;
                    \* "table" while the process table is being edited;
                    \* "metrics" and "derived" around computeMetrics alone
    procs,          \* simulateSchedule's copy of the list
    gantt,          \* the scheduler's gantt array
    currentTime,    \* the scheduler's clock
    sorted,         \* scheduleFCFS: the sorted list
    fcfsIndex,      \* scheduleFCFS: position of the for-of loop in sorted
    remaining,      \* scheduleSJF / schedulePriority: the pool not yet run
    allProcesses,   \* scheduleRoundRobin: sorted list with remainingBurst
    readyQueue,     \* scheduleRoundRobin: queue of references (indices) into allProcesses
    processIndex,   \* scheduleRoundRobin: next process not yet enqueued (0-based)
    result,         \* the SimulationResult returned, or null
    candidate,      \* the descriptor handed to validateProcess, or null
    validation,     \* what validateProcess returned, or null
    isRunning,      \* App: a simulation has been started and not yet delivered
    timers,         \* App: the pending setTimeout callbacks of handleRun, each
                    \* with the processes, algorithm and quantum it closed over
    rowErrors,      \* ProcessTable: the errors map, row index (1-based) ->
                    \* validation messages
    isPlaying,      \* GanttChart: the animation is running
    animationProgress   \* GanttChart: the time the animation has reached

\* The variables of validateProcess, which the engine does not touch.
validatorVars == <<candidate, validation>>

\* The variables of the components around the engine, which the engine and
\* validateProcess do not touch.
viewVars == <<isRunning, timers, rowErrors, isPlaying, animationProgress>>

vars == <<processes, algorithm, quantum, pc, procs, gantt, currentTime, sorted,
          fcfsIndex, remaining, allProcesses, readyQueue, processIndex, result,
          candidate, validation, isRunning, timers, rowErrors, isPlaying,
          animationProgress>>

\* The components as they are mounted: nothing runs, no timer is pending, no
\* row has errors, the animation is at 0 and paused.
ViewAtRest ==
    /\ isRunning = FALSE
    /\ timers = <<>>
    /\ rowErrors = <<>>
    /\ isPlaying = FALSE
    /\ animationProgress = Zero


\* ------------------------------------------------------------------ computeMetrics
\* firstStartTime.get(pid) || 0 : start of the first segment of pid.
FirstStartTime(ganttChart, pid) ==
    LET idx == FindIndexByPid(ganttChart, pid)
    IN  IF idx = 0 THEN 0 ELSE ganttChart[idx].start

\* Variant of CompletionTime: the end of the first segment of pid.
CompletionTime_FirstSegment(ganttChart, pid) ==
    LET idx == FindIndexByPid(ganttChart, pid)
    IN  IF idx = 0 THEN 0 ELSE ganttChart[idx].end

\* completionTime.get(pid) || 0 : end of the last segment of pid.
CompletionTime(ganttChart, pid) ==
    LET hits == { i \in 1..Len(ganttChart) : ganttChart[i].pid = pid }
    IN  IF hits = {} THEN 0
        ELSE ganttChart[CHOOSE i \in hits : \A j \in hits : j <= i].end

\* Variant of MetricsOf: the response time taken as arrival minus first
\* start, and not floored.
MetricsOf_ResponseReversed(proc, ganttChart) ==
    LET ct == CompletionTime(ganttChart, proc.pid)
        turnaroundTime == ct - proc.arrivalTime
        waitingTime == turnaroundTime - proc.burstTime
        responseTime == proc.arrivalTime - FirstStartTime(ganttChart, proc.pid)
    IN  [pid |-> proc.pid,
         arrivalTime |-> proc.arrivalTime,
         burstTime |-> proc.burstTime,
         priority |-> proc.priority,
         completionTime |-> ct,
         waitingTime |-> Max(0, waitingTime),
         turnaroundTime |-> turnaroundTime,
         responseTime |-> responseTime]

\* Mutant of MetricsOf: the turnaround time is floored at 0 like the waiting
\* time.
MetricsOf_TurnaroundFloored(proc, ganttChart) ==
    LET ct == CompletionTime(ganttChart, proc.pid)
        turnaroundTime == Max(0, ct - proc.arrivalTime)
        waitingTime == turnaroundTime - proc.burstTime
        responseTime == FirstStartTime(ganttChart, proc.pid) - proc.arrivalTime
    IN  [pid |-> proc.pid,
         arrivalTime |-> proc.arrivalTime,
         burstTime |-> proc.burstTime,
         priority |-> proc.priority,
         completionTime |-> ct,
         waitingTime |-> Max(0, waitingTime),
         turnaroundTime |-> turnaroundTime,
         responseTime |-> Max(0, responseTime)]

\* One ProcessMetrics entry.
MetricsOf(proc, ganttChart) ==
    LET ct == CompletionTime(ganttChart, proc.pid)
        turnaroundTime == ct - proc.arrivalTime
        waitingTime == turnaroundTime - proc.burstTime
        responseTime == FirstStartTime(ganttChart, proc.pid) - proc.arrivalTime
    IN  [pid |-> proc.pid,
         arrivalTime |-> proc.arrivalTime,
         burstTime |-> proc.burstTime,
         priority |-> proc.priority,
         completionTime |-> ct,
         waitingTime |-> Max(0, waitingTime),
         turnaroundTime |-> turnaroundTime,
         responseTime |-> Max(0, responseTime)]

\* a.pid.localeCompare(b.pid) on the pids of PidNames.
LocaleCompare(a, b) ==
    LET rank(pid) == CHOOSE i \in 1..Len(PidNames) : PidNames[i] = pid
    IN  rank(a.pid) - rank(b.pid)

\* Percentage constant of the CPU utilization formula.
Percent == 100

\* Variant of Average: the last value is left out of the sum.
Average_DropLast(xs) == FDiv(SumTo(xs, Len(xs) - 1), Len(xs))

\* processMetrics.reduce((sum, m) => sum + m.<field>, 0) / n, for the
\* sequence xs of the field's values.
Average(xs) == FDiv(SumTo(xs, Len(xs)), Len(xs))

TotalTime(ganttChart) ==
    IF Len(ganttChart) > 0 THEN ganttChart[Len(ganttChart)].end ELSE 0

\* Variant of BusyTime: idle segments counted as busy.
BusyTime_CountIdle(ganttChart) ==
    LET busy == [i \in 1..Len(ganttChart) |->
                    ganttChart[i].end - ganttChart[i].start]
    IN  SumTo(busy, Len(ganttChart))

BusyTime(ganttChart) ==
    LET busy == [i \in 1..Len(ganttChart) |->
                    IF ganttChart[i].pid # null
                    THEN ganttChart[i].end - ganttChart[i].start ELSE 0]
    IN  SumTo(busy, Len(ganttChart))

CpuUtilization(busyTime, totalTime) ==
    IF totalTime > 0 THEN FMul(FDiv(busyTime, totalTime), Percent) ELSE Zero

\* Variant of ComputeMetrics: the entries stay in the order of the list.
ComputeMetrics_Unsorted(ps, ganttChart) ==
    LET unsorted == [i \in 1..Len(ps) |-> MetricsOf(ps[i], ganttChart)]
        processMetrics == unsorted
        n == Len(processMetrics)
        totalTime == TotalTime(ganttChart)
    IN  [ganttChart |-> ganttChart,
         processMetrics |-> processMetrics,
         averageWaitingTime |->
            Average([i \in 1..n |-> processMetrics[i].waitingTime]),
         averageTurnaroundTime |->
            Average([i \in 1..n |-> processMetrics[i].turnaroundTime]),
         averageResponseTime |->
            Average([i \in 1..n |-> processMetrics[i].responseTime]),
         cpuUtilization |-> CpuUtilization(BusyTime(ganttChart), totalTime),
         totalTime |-> totalTime]

ComputeMetrics(ps, ganttChart) ==
    LET unsorted == [i \in 1..Len(ps) |-> MetricsOf(ps[i], ganttChart)]
        processMetrics ==
            SortBy(unsorted, [a, b \in Range(unsorted) |-> LocaleCompare(a, b)])
        n == Len(processMetrics)
        totalTime == TotalTime(ganttChart)
    IN  [ganttChart |-> ganttChart,
         processMetrics |-> processMetrics,
         averageWaitingTime |->
            Average([i \in 1..n |-> processMetrics[i].waitingTime]),
         averageTurnaroundTime |->
            Average([i \in 1..n |-> processMetrics[i].turnaroundTime]),
         averageResponseTime |->
            Average([i \in 1..n |-> processMetrics[i].responseTime]),
         cpuUtilization |-> CpuUtilization(BusyTime(ganttChart), totalTime),
         totalTime |-> totalTime]

\* The result simulateSchedule returns for an empty list.
EmptyResult ==
    [ganttChart |-> <<>>,
     processMetrics |-> <<>>,
     averageWaitingTime |-> Zero,
     averageTurnaroundTime |-> Zero,
     averageResponseTime |-> Zero,
     cpuUtilization |-> Zero,
     totalTime |-> 0]

\* ------------------------------------------------------------------ Round Robin helpers
\* The closure enqueueArrivals(upToTime): pushes references to the processes
\* from processIndex on whose arrivalTime <= upToTime.
RECURSIVE EnqueueArrivals(_, _, _, _)
EnqueueArrivals(all, queue, index, upToTime) ==
    IF index < Len(all) /\ all[index + 1].arrivalTime <= upToTime
    THEN EnqueueArrivals(all, Append(queue, index + 1), index + 1, upToTime)
    ELSE [readyQueue |-> queue, processIndex |-> index]

\* processes.map(p => ({...p, remainingBurst: p.burstTime})).sort(...)
InitAllProcesses(ps) ==
    LET mapped == [i \in 1..Len(ps) |->
                    [pid |-> ps[i].pid, arrivalTime |-> ps[i].arrivalTime,
                     burstTime |-> ps[i].burstTime, priority |-> ps[i].priority,
                     insertionOrder |-> ps[i].insertionOrder,
                     remainingBurst |-> ps[i].burstTime]]
    IN  SortBy(mapped, [a, b \in Range(mapped) |-> CompareArrival(a, b)])

\* Mutant of ExecTime: the process runs to completion, the quantum is ignored.
ExecTime_RunToCompletion(q, remainingBurst) == remainingBurst

\* Mutant of ExecTime: the slice always lasts a whole quantum.
ExecTime_WholeQuantum(q, remainingBurst) == q

\* Execution time of one slice.
ExecTime(q, remainingBurst) == Min(q, remainingBurst)

\* ------------------------------------------------------------------ Init
\* The engine before simulateSchedule is called.
BeforeCall ==
    /\ pc = "call"
    /\ procs = <<>>
    /\ gantt = <<>>
    /\ currentTime = 0
    /\ sorted = <<>>
    /\ fcfsIndex = 1
    /\ remaining = <<>>
    /\ allProcesses = <<>>
    /\ readyQueue = <<>>
    /\ processIndex = 0
    /\ result = null
    /\ candidate = null
    /\ validation = null
    /\ ViewAtRest

\* The quantum argument: at least 1 under Round Robin, left at its default
\* under the other policies; any number with an empty list, which no
\* scheduler gets to see.
QuantumValues(alg, ps) ==
    IF Len(ps) = 0 THEN (0 - MaxQuantum)..MaxQuantum
    ELSE IF alg = "RoundRobin" THEN 1..MaxQuantum
    ELSE {DefaultQuantum}

Init ==
    /\ algorithm \in Algorithms
    /\ \E n \in 0..MaxProcs : \E f \in [1..n -> ValidFields(algorithm)] :
          processes = ProcessList(n, f)
    /\ quantum \in QuantumValues(algorithm, processes)
    /\ BeforeCall

\* ------------------------------------------------------------------ simulateSchedule
\* Variant of CallEmpty: no early return, the empty list goes through
\* computeMetrics.
CallEmpty_NoEarlyReturn ==
    /\ pc = "call"
    /\ Len(processes) = 0
    /\ result' = ComputeMetrics(<<>>, <<>>)
    /\ pc' = "done"
    /\ UNCHANGED <<validatorVars, viewVars, processes, algorithm, quantum, procs, gantt, currentTime, sorted,
                   fcfsIndex, remaining, allProcesses, readyQueue, processIndex>>

\* simulateSchedule on an empty list: the zero result, no scheduler runs.
CallEmpty ==
    /\ pc = "call"
    /\ Len(processes) = 0
    /\ result' = EmptyResult
    /\ pc' = "done"
    /\ UNCHANGED <<validatorVars, viewVars, processes, algorithm, quantum, procs, gantt, currentTime, sorted,
                   fcfsIndex, remaining, allProcesses, readyQueue, processIndex>>

\* Variant of Dispatch: the caller's list itself is sorted by arrival, not
\* a copy of it.
Dispatch_SortInPlace ==
    /\ pc = "call"
    /\ Len(processes) # 0
    /\ algorithm \in Algorithms
    /\ procs' = processes
    /\ pc' = algorithm
    /\ gantt' = <<>>
    /\ currentTime' = 0
    /\ sorted' = IF algorithm = "FCFS"
                 THEN SortBy(processes,
                             [a, b \in Range(processes) |-> CompareArrival(a, b)])
                 ELSE <<>>
    /\ fcfsIndex' = 1
    /\ remaining' = IF algorithm \in {"SJF", "Priority"} THEN processes ELSE <<>>
    /\ IF algorithm = "RoundRobin"
       THEN LET all == InitAllProcesses(processes)
                enq == EnqueueArrivals(all, <<>>, 0, 0)
            IN  /\ allProcesses' = all
                /\ readyQueue' = enq.readyQueue
                /\ processIndex' = enq.processIndex
       ELSE /\ allProcesses' = <<>>
            /\ readyQueue' = <<>>
            /\ processIndex' = 0
    /\ processes' = SortBy(processes,
                            [a, b \in Range(processes) |-> CompareArrival(a, b)])
    /\ UNCHANGED <<validatorVars, viewVars, algorithm, quantum, result>>

\* simulateSchedule on a non-empty list: copy, dispatch on the algorithm and
\* run the chosen scheduler up to its loop.
Dispatch ==
    /\ pc = "call"
    /\ Len(processes) # 0
    /\ algorithm \in Algorithms
    /\ procs' = processes
    /\ pc' = algorithm
    /\ gantt' = <<>>
    /\ currentTime' = 0
    /\ sorted' = IF algorithm = "FCFS"
                 THEN SortBy(processes,
                             [a, b \in Range(processes) |-> CompareArrival(a, b)])
                 ELSE <<>>
    /\ fcfsIndex' = 1
    /\ remaining' = IF algorithm \in {"SJF", "Priority"} THEN processes ELSE <<>>
    /\ IF algorithm = "RoundRobin"
       THEN LET all == InitAllProcesses(processes)
                enq == EnqueueArrivals(all, <<>>, 0, 0)
            IN  /\ allProcesses' = all
                /\ readyQueue' = enq.readyQueue
                /\ processIndex' = enq.processIndex
       ELSE /\ allProcesses' = <<>>
            /\ readyQueue' = <<>>
            /\ processIndex' = 0
    /\ UNCHANGED <<validatorVars, viewVars, processes, algorithm, quantum, result>>

\* ------------------------------------------------------------------ scheduleFCFS
\* Mutant of FCFSStep: the clock jumps to the arrival without an idle segment.
FCFSStep_NoIdleSegment ==
    /\ pc = "FCFS"
    /\ fcfsIndex <= Len(sorted)
    /\ LET proc == sorted[fcfsIndex]
           startTime == Max(currentTime, proc.arrivalTime)
       IN  /\ gantt' = Append(gantt,
                              GanttSegment(proc.pid, startTime, startTime + proc.burstTime))
           /\ currentTime' = startTime + proc.burstTime
    /\ fcfsIndex' = fcfsIndex + 1
    /\ UNCHANGED <<validatorVars, viewVars, processes, algorithm, quantum, pc, procs, sorted, remaining,
                   allProcesses, readyQueue, processIndex, result>>

\* Mutant of FCFSStep: a process starts at its arrival time even when the
\* CPU is still busy.
FCFSStep_StartAtArrival ==
    /\ pc = "FCFS"
    /\ fcfsIndex <= Len(sorted)
    /\ LET proc == sorted[fcfsIndex]
           isIdle == currentTime < proc.arrivalTime
           startTime == proc.arrivalTime
           withIdle == IF isIdle
                       THEN Append(gantt, GanttSegment(null, currentTime, proc.arrivalTime))
                       ELSE gantt
       IN  /\ gantt' = Append(withIdle,
                              GanttSegment(proc.pid, startTime, startTime + proc.burstTime))
           /\ currentTime' = startTime + proc.burstTime
    /\ fcfsIndex' = fcfsIndex + 1
    /\ UNCHANGED <<validatorVars, viewVars, processes, algorithm, quantum, pc, procs, sorted, remaining,
                   allProcesses, readyQueue, processIndex, result>>

\* One iteration of the for-of loop: idle up to the arrival if needed, then
\* run the process to completion.
FCFSStep ==
    /\ pc = "FCFS"
    /\ fcfsIndex <= Len(sorted)
    /\ LET proc == sorted[fcfsIndex]
           isIdle == currentTime < proc.arrivalTime
           startTime == IF isIdle THEN proc.arrivalTime ELSE currentTime
           withIdle == IF isIdle
                       THEN Append(gantt, GanttSegment(null, currentTime, proc.arrivalTime))
                       ELSE gantt
       IN  /\ gantt' = Append(withIdle,
                              GanttSegment(proc.pid, startTime, startTime + proc.burstTime))
           /\ currentTime' = startTime + proc.burstTime
    /\ fcfsIndex' = fcfsIndex + 1
    /\ UNCHANGED <<validatorVars, viewVars, processes, algorithm, quantum, pc, procs, sorted, remaining,
                   allProcesses, readyQueue, processIndex, result>>

\* The for-of loop of scheduleFCFS from the index-th process of the sorted
\* list on, the clock being at now: the segments it pushes.
RECURSIVE FCFSLoop(_, _, _)
FCFSLoop(sortedList, index, now) ==
    IF index > Len(sortedList) THEN <<>>
    ELSE LET proc == sortedList[index]
             isIdle == now < proc.arrivalTime
             startTime == IF isIdle THEN proc.arrivalTime ELSE now
         IN  (IF isIdle THEN <<GanttSegment(null, now, proc.arrivalTime)>> ELSE <<>>)
                 \o <<GanttSegment(proc.pid, startTime, startTime + proc.burstTime)>>
                 \o FCFSLoop(sortedList, index + 1, startTime + proc.burstTime)

\* scheduleFCFS as a function of its argument: the timeline it returns.
ScheduleFCFS(ps) ==
    FCFSLoop(SortBy(ps, [a, b \in Range(ps) |-> CompareArrival(a, b)]), 1, 0)

\* ------------------------------------------------------------------ scheduleSJF / schedulePriority
\* Mutant of Available: every remaining process counts as arrived.
Available_IgnoreArrival(rem, now) == rem

\* remaining.filter(p => p.arrivalTime <= currentTime)
Available(rem, now) ==
    LET Arrived(p) == p.arrivalTime <= now
    IN  SelectSeq(rem, Arrived)

\* Mutant of IdleToNextArrival: idles until the last arrival instead of the next.
IdleToNextArrival_Latest ==
    LET arrivals == { remaining[i].arrivalTime : i \in 1..Len(remaining) }
        lastArrival == CHOOSE x \in arrivals : \A y \in arrivals : y <= x
    IN  /\ gantt' = Append(gantt, GanttSegment(null, currentTime, lastArrival))
        /\ currentTime' = lastArrival
        /\ UNCHANGED remaining

\* The branch taken when nothing has arrived: idle to the next arrival.
IdleToNextArrival ==
    LET nextArrival == MathMin({ remaining[i].arrivalTime : i \in 1..Len(remaining) })
    IN  /\ gantt' = Append(gantt, GanttSegment(null, currentTime, nextArrival))
        /\ currentTime' = nextArrival
        /\ UNCHANGED remaining

\* Mutant of RunSelected: splices at the position in the sorted available list
\* (always the first) instead of the position in remaining.
RunSelected_WrongIndex(selected) ==
    /\ remaining' = Splice1(remaining, 1)
    /\ gantt' = Append(gantt, GanttSegment(selected.pid, currentTime,
                                           currentTime + selected.burstTime))
    /\ currentTime' = currentTime + selected.burstTime

\* Mutant of RunSelected: a positive quantum caps the time the selected
\* process runs.
RunSelected_QuantumCap(selected) ==
    LET index == FindIndexByPid(remaining, selected.pid)
        execTime == IF quantum > 0 THEN Min(quantum, selected.burstTime)
                    ELSE selected.burstTime
    IN  /\ remaining' = Splice1(remaining, index)
        /\ gantt' = Append(gantt, GanttSegment(selected.pid, currentTime,
                                               currentTime + execTime))
        /\ currentTime' = currentTime + execTime

\* Remove the selected process from remaining (by pid) and run it to completion.
RunSelected(selected) ==
    LET index == FindIndexByPid(remaining, selected.pid)
    IN  /\ remaining' = Splice1(remaining, index)
        /\ gantt' = Append(gantt, GanttSegment(selected.pid, currentTime,
                                               currentTime + selected.burstTime))
        /\ currentTime' = currentTime + selected.burstTime

SJFIdle ==
    /\ pc = "SJF"
    /\ Len(remaining) > 0
    /\ Len(Available(remaining, currentTime)) = 0
    /\ IdleToNextArrival
    /\ UNCHANGED <<validatorVars, viewVars, processes, algorithm, quantum, pc, procs, sorted, fcfsIndex,
                   allProcesses, readyQueue, processIndex, result>>

SJFSelect ==
    /\ pc = "SJF"
    /\ Len(remaining) > 0
    /\ Len(Available(remaining, currentTime)) # 0
    /\ LET available == Available(remaining, currentTime)
       IN  RunSelected(SortBy(available,
                              [a, b \in Range(available) |-> CompareSJF(a, b)])[1])
    /\ UNCHANGED <<validatorVars, viewVars, processes, algorithm, quantum, pc, procs, sorted, fcfsIndex,
                   allProcesses, readyQueue, processIndex, result>>

PriorityIdle ==
    /\ pc = "Priority"
    /\ Len(remaining) > 0
    /\ Len(Available(remaining, currentTime)) = 0
    /\ IdleToNextArrival
    /\ UNCHANGED <<validatorVars, viewVars, processes, algorithm, quantum, pc, procs, sorted, fcfsIndex,
                   allProcesses, readyQueue, processIndex, result>>

PrioritySelect ==
    /\ pc = "Priority"
    /\ Len(remaining) > 0
    /\ Len(Available(remaining, currentTime)) # 0
    /\ LET available == Available(remaining, currentTime)
       IN  RunSelected(SortBy(available,
                              [a, b \in Range(available) |-> ComparePriority(a, b)])[1])
    /\ UNCHANGED <<validatorVars, viewVars, processes, algorithm, quantum, pc, procs, sorted, fcfsIndex,
                   allProcesses, readyQueue, processIndex, result>>

\* ------------------------------------------------------------------ scheduleRoundRobin
\* The ready queue is empty: idle to the next arrival and enqueue it.
RRIdle ==
    /\ pc = "RoundRobin"
    /\ Len(readyQueue) = 0
    /\ processIndex < Len(allProcesses)
    /\ LET nextArrival == allProcesses[processIndex + 1].arrivalTime
           enq == EnqueueArrivals(allProcesses, readyQueue, processIndex, nextArrival)
       IN  /\ gantt' = Append(gantt, GanttSegment(null, currentTime, nextArrival))
           /\ currentTime' = nextArrival
           /\ readyQueue' = enq.readyQueue
           /\ processIndex' = enq.processIndex
    /\ UNCHANGED <<validatorVars, viewVars, processes, algorithm, quantum, pc, procs, sorted, fcfsIndex,
                   remaining, allProcesses, result>>

\* Variant of Requeue: the process is pushed to the back whether or not it has
\* burst time left.
Requeue_AlwaysBack(all, rest, index, now, current, unfinished) ==
    LET enq == EnqueueArrivals(all, rest, index, now)
    IN  [readyQueue |-> Append(enq.readyQueue, current),
         processIndex |-> enq.processIndex]

\* Mutant of Requeue: the preempted process is pushed back before the arrivals
\* of its slice are enqueued.
Requeue_PushFirst(all, rest, index, now, current, unfinished) ==
    LET enq == EnqueueArrivals(all, IF unfinished THEN Append(rest, current) ELSE rest,
                               index, now)
    IN  [readyQueue |-> enq.readyQueue, processIndex |-> enq.processIndex]

\* Mutant of Requeue: the ready queue is kept ordered by the burst time the
\* processes still need, the shortest first.
Requeue_ShortestFirst(all, rest, index, now, current, unfinished) ==
    LET enq == EnqueueArrivals(all, rest, index, now)
        queue == IF unfinished THEN Append(enq.readyQueue, current)
                 ELSE enq.readyQueue
        left == [i \in Range(queue) |->
                    IF i = current
                    THEN all[i].remainingBurst - Min(quantum, all[i].remainingBurst)
                    ELSE all[i].remainingBurst]
    IN  [readyQueue |-> SortBy(queue, [a, b \in Range(queue) |-> left[a] - left[b]]),
         processIndex |-> enq.processIndex]

\* Where the preempted process goes relative to the arrivals of its slice:
\* arrivals are enqueued first, then the process is pushed to the back.
Requeue(all, rest, index, now, current, unfinished) ==
    LET enq == EnqueueArrivals(all, rest, index, now)
    IN  [readyQueue |-> IF unfinished THEN Append(enq.readyQueue, current)
                        ELSE enq.readyQueue,
         processIndex |-> enq.processIndex]

\* Dequeue the head, run it for one slice, enqueue the arrivals, re-queue it
\* if it is unfinished.
RRSlice ==
    /\ pc = "RoundRobin"
    /\ Len(readyQueue) > 0
    /\ LET current == Head(readyQueue)
           execTime == ExecTime(quantum, allProcesses[current].remainingBurst)
           left == allProcesses[current].remainingBurst - execTime
           now == currentTime + execTime
           req == Requeue(allProcesses, Tail(readyQueue), processIndex, now,
                          current, left > 0)
       IN  /\ gantt' = Append(gantt, GanttSegment(allProcesses[current].pid,
                                                  currentTime, now))
           /\ currentTime' = now
           /\ allProcesses' = [allProcesses EXCEPT ![current].remainingBurst = left]
           /\ readyQueue' = req.readyQueue
           /\ processIndex' = req.processIndex
    /\ UNCHANGED <<validatorVars, viewVars, processes, algorithm, quantum, pc, procs, sorted, fcfsIndex,
                   remaining, result>>

\* The while loop of scheduleRoundRobin from the state (all, queue, index,
\* now) on: the segments it pushes.
RECURSIVE RRLoop(_, _, _, _, _)
RRLoop(all, queue, index, now, q) ==
    IF Len(queue) = 0 /\ index >= Len(all) THEN <<>>
    ELSE IF Len(queue) = 0
    THEN LET nextArrival == all[index + 1].arrivalTime
             enq == EnqueueArrivals(all, queue, index, nextArrival)
         IN  <<GanttSegment(null, now, nextArrival)>>
                 \o RRLoop(all, enq.readyQueue, enq.processIndex, nextArrival, q)
    ELSE LET current == Head(queue)
             execTime == ExecTime(q, all[current].remainingBurst)
             left == all[current].remainingBurst - execTime
             req == Requeue(all, Tail(queue), index, now + execTime, current, left > 0)
         IN  <<GanttSegment(all[current].pid, now, now + execTime)>>
                 \o RRLoop([all EXCEPT ![current].remainingBurst = left],
                           req.readyQueue, req.processIndex, now + execTime, q)

\* scheduleRoundRobin as a function of its arguments (quantum >= 1): the
\* timeline it returns.
ScheduleRoundRobin(ps, q) ==
    LET all == InitAllProcesses(ps)
        enq == EnqueueArrivals(all, <<>>, 0, 0)
    IN  RRLoop(all, enq.readyQueue, enq.processIndex, 0, q)

\* ------------------------------------------------------------------ return
\* The loop condition of the running scheduler.
LoopRuns ==
    CASE pc = "FCFS" -> fcfsIndex <= Len(sorted)
      [] pc \in {"SJF", "Priority"} -> Len(remaining) > 0
      [] pc = "RoundRobin" -> Len(readyQueue) > 0 \/ processIndex < Len(allProcesses)
      [] OTHER -> FALSE

\* The scheduler returns its gantt; simulateSchedule returns computeMetrics.
Return ==
    /\ pc \in Algorithms
    /\ ~LoopRuns
    /\ result' = ComputeMetrics(procs, gantt)
    /\ pc' = "done"
    /\ UNCHANGED <<validatorVars, viewVars, processes, algorithm, quantum, procs, gantt, currentTime, sorted,
                   fcfsIndex, remaining, allProcesses, readyQueue, processIndex>>

Next ==
    \/ CallEmpty
    \/ Dispatch
    \/ FCFSStep
    \/ SJFIdle
    \/ SJFSelect
    \/ PriorityIdle
    \/ PrioritySelect
    \/ RRIdle
    \/ RRSlice
    \/ Return

Spec == Init /\ [][Next]_vars

\* ------------------------------------------------------------------ longer lists
\* Runs on lists of up to ManyProcs processes that all arrive at the same
\* time, with the table's default priority.
InitManyProcesses ==
    /\ algorithm \in Algorithms
    /\ \E n \in 0..ManyProcs : \E a \in 0..ManyArrival :
       \E b \in [1..n -> 1..ManyBurst] :
          processes = ProcessList(n, [i \in 1..n |->
                          [arrivalTime |-> a, burstTime |-> b[i],
                           priority |-> DefaultPriority]])
    /\ quantum \in QuantumValues(algorithm, processes)
    /\ BeforeCall

SpecManyProcesses == InitManyProcesses /\ [][Next]_vars

\* ------------------------------------------------------------------ any policy token
\* simulateSchedule on a non-empty list with a token that no case of the
\* switch matches: the list has been copied, then the default branch throws.
\* Nothing is returned.
ThrowUnknown ==
    /\ pc = "call"
    /\ Len(processes) # 0
    /\ algorithm \notin Algorithms
    /\ procs' = processes
    /\ pc' = "threw"
    /\ UNCHANGED <<validatorVars, viewVars, processes, algorithm, quantum, gantt, currentTime, sorted,
                   fcfsIndex, remaining, allProcesses, readyQueue, processIndex,
                   result>>

\* Calls with a recognized policy or with the unknown token.
InitAnyPolicy ==
    /\ algorithm \in Algorithms \cup {UnknownAlgorithm}
    /\ \E n \in 0..MaxProcs : \E f \in [1..n -> ValidFields(algorithm)] :
          processes = ProcessList(n, f)
    /\ quantum \in QuantumValues(algorithm, processes)
    /\ BeforeCall

NextAnyPolicy ==
    \/ Next
    \/ ThrowUnknown

SpecAnyPolicy == InitAnyPolicy /\ [][NextAnyPolicy]_vars

\* ------------------------------------------------------------------ any pid order
\* A process list after its pids were edited in the table: the i-th descriptor
\* has pid P<pidAt[i]> and insertionOrder i - 1; f gives the timing fields.
ProcessListWithPids(n, f, pidAt) ==
    [i \in 1..n |-> Process(PidNames[pidAt[i]], f[i].arrivalTime, f[i].burstTime,
                            f[i].priority, i - 1)]

PermutedFields(alg) ==
    [arrivalTime : 0..PermutedArrival, burstTime : 1..PermutedBurst,
     priority : IF alg = "Priority" THEN 0..MaxPriority ELSE {DefaultPriority}]

\* Runs on lists with unique pids in any order.
InitPermuted ==
    /\ algorithm \in Algorithms
    /\ \E n \in 0..MaxProcs : \E f \in [1..n -> PermutedFields(algorithm)] :
       \E pidAt \in Permutations(1..n) :
          processes = ProcessListWithPids(n, f, pidAt)
    /\ quantum \in QuantumValues(algorithm, processes)
    /\ BeforeCall

SpecPermuted == InitPermuted /\ [][Next]_vars

\* ------------------------------------------------------------------ validateProcess
\* A Partial<Process> as validateProcess reads it: each of pid, arrivalTime,
\* burstTime and priority is <<>> when undefined and <<value>> when present.
\* A pid value is a sequence of characters; the numbers are integers, as the
\* process table makes them (parseInt(value, 10) || 0).
PidChars == {" ", "P"}

IsWhitespace(c) == c = " "

PidStrings == UNION { [1..n -> PidChars] : n \in 0..MaxPidLen }

Partial(T) == {<<>>} \cup { <<v>> : v \in T }

Descriptors ==
    [pid : Partial(PidStrings),
     arrivalTime : Partial((0 - MaxField)..MaxField),
     burstTime : Partial((0 - MaxField)..MaxField),
     priority : Partial((0 - MaxField)..MaxField)]

\* String.prototype.trim
Trim(str) ==
    LET solid == { i \in 1..Len(str) : ~IsWhitespace(str[i]) }
    IN  IF solid = {} THEN <<>>
        ELSE SubSeq(str, CHOOSE i \in solid : \A j \in solid : i <= j,
                         CHOOSE i \in solid : \A j \in solid : j <= i)

\* Variant of ValidateProcess: the checks chained with else, so that only the
\* first violated rule is reported.
ValidateProcess_FirstOnly(process) ==
    LET errors ==
            IF process.pid = <<>> \/ process.pid[1] = <<>>
                   \/ Trim(process.pid[1]) = <<>>
            THEN <<"Process ID is required">>
            ELSE IF process.arrivalTime = <<>> \/ process.arrivalTime[1] < 0
            THEN <<"Arrival time must be >= 0">>
            ELSE IF process.burstTime = <<>> \/ process.burstTime[1] <= 0
            THEN <<"Burst time must be > 0">>
            ELSE IF process.priority = <<>> \/ process.priority[1] < 0
            THEN <<"Priority must be >= 0">>
            ELSE <<>>
    IN  [valid |-> Len(errors) = 0, errors |-> errors]

ValidateProcess(process) ==
    LET pidError ==
            IF process.pid = <<>> \/ process.pid[1] = <<>>
                   \/ Trim(process.pid[1]) = <<>>
            THEN <<"Process ID is required">> ELSE <<>>
        arrivalError ==
            IF process.arrivalTime = <<>> \/ process.arrivalTime[1] < 0
            THEN <<"Arrival time must be >= 0">> ELSE <<>>
        burstError ==
            IF process.burstTime = <<>> \/ process.burstTime[1] <= 0
            THEN <<"Burst time must be > 0">> ELSE <<>>
        priorityError ==
            IF process.priority = <<>> \/ process.priority[1] < 0
            THEN <<"Priority must be >= 0">> ELSE <<>>
        errors == pidError \o arrivalError \o burstError \o priorityError
    IN  [valid |-> Len(errors) = 0, errors |-> errors]

\* A call of validateProcess.
Validate ==
    /\ pc = "validate"
    /\ validation' = ValidateProcess(candidate)
    /\ pc' = "validated"
    /\ UNCHANGED <<viewVars, candidate, processes, algorithm, quantum, procs, gantt, currentTime,
                   sorted, fcfsIndex, remaining, allProcesses, readyQueue,
                   processIndex, result>>

InitValidate ==
    /\ candidate \in Descriptors
    /\ validation = null
    /\ ViewAtRest
    /\ pc = "validate"
    /\ processes = <<>>
    /\ algorithm = "FCFS"
    /\ quantum = DefaultQuantum
    /\ procs = <<>>
    /\ gantt = <<>>
    /\ currentTime = 0
    /\ sorted = <<>>
    /\ fcfsIndex = 1
    /\ remaining = <<>>
    /\ allProcesses = <<>>
    /\ readyQueue = <<>>
    /\ processIndex = 0
    /\ result = null

NextValidate == Validate

SpecValidate == InitValidate /\ [][NextValidate]_vars

\* ------------------------------------------------------------------ getExampleProcesses
\* Variant of GetExampleProcesses: the insertion orders count from 1.
GetExampleProcesses_OneBased ==
    <<Process("P1", 0, 5, 2, 1),
      Process("P2", 1, 3, 1, 2),
      Process("P3", 2, 8, 4, 3),
      Process("P4", 3, 6, 3, 4),
      Process("P5", 4, 4, 2, 5)>>

\* The array literal getExampleProcesses returns; every call evaluates the
\* literal anew.
GetExampleProcesses ==
    <<Process("P1", 0, 5, 2, 0),
      Process("P2", 1, 3, 1, 1),
      Process("P3", 2, 8, 4, 2),
      Process("P4", 3, 6, 3, 3),
      Process("P5", 4, 4, 2, 4)>>

\* The digits of the pids of PidNames.
PidDigits == <<"1", "2", "3", "4", "5", "6", "7", "8", "9">>

\* The characters of a pid: of a name of PidNames, of the empty string or of
\* a single space.
CharsOf(pid) ==
    IF pid = "" THEN <<>>
    ELSE IF pid = " " THEN <<" ">>
    ELSE LET i == CHOOSE k \in 1..Len(PidNames) : PidNames[k] = pid
         IN  <<"P", PidDigits[i]>>

\* A complete descriptor as validateProcess reads it.
AsPartial(proc) ==
    [pid |-> <<CharsOf(proc.pid)>>,
     arrivalTime |-> <<proc.arrivalTime>>,
     burstTime |-> <<proc.burstTime>>,
     priority |-> <<proc.priority>>]

\* new Map(errors) with set(index, messages).
MapSet(map, index, messages) ==
    [k \in (DOMAIN map) \cup {index} |-> IF k = index THEN messages ELSE map[k]]

\* new Map(errors) with delete(index).
MapDelete(map, index) == [k \in (DOMAIN map) \ {index} |-> map[k]]

\* result !== null (a result record and null are told apart by how they print).
HasResult == ToString(result) # ToString(null)

\* App's handleProcessesChange: the list is replaced, and a result on display
\* is cleared when the new list is empty.
HandleProcessesChange(newProcesses) ==
    /\ processes' = newProcesses
    /\ result' = IF Len(newProcesses) = 0 /\ HasResult THEN null ELSE result

\* The table's Load Example button (disabled while a simulation is running).
LoadExample ==
    /\ pc = "table"
    /\ ~isRunning
    /\ HandleProcessesChange(GetExampleProcesses)
    /\ rowErrors' = <<>>
    /\ UNCHANGED <<validatorVars, isRunning, timers, isPlaying, animationProgress,
                   algorithm, quantum, pc, procs, gantt, currentTime,
                   sorted, fcfsIndex, remaining, allProcesses, readyQueue,
                   processIndex>>

\* Mutant of DeleteProcess: the row is filtered out and the insertion orders
\* are left as they were.
DeleteProcess_KeepOrders ==
    /\ pc = "table"
    /\ ~isRunning
    /\ \E index \in 1..Len(processes) :
          /\ HandleProcessesChange(Splice1(processes, index))
          /\ rowErrors' = MapDelete(rowErrors, index)
    /\ UNCHANGED <<validatorVars, isRunning, timers, isPlaying, animationProgress,
                   algorithm, quantum, pc, procs, gantt, currentTime,
                   sorted, fcfsIndex, remaining, allProcesses, readyQueue,
                   processIndex>>

\* The table's delete button of a row: the row is filtered out, the
\* insertion orders are renumbered and the row's entry of the errors map is
\* deleted.
DeleteProcess ==
    /\ pc = "table"
    /\ ~isRunning
    /\ \E index \in 1..Len(processes) :
          /\ HandleProcessesChange(
                 [i \in 1..(Len(processes) - 1) |->
                     [Splice1(processes, index)[i] EXCEPT !.insertionOrder = i - 1]])
          /\ rowErrors' = MapDelete(rowErrors, index)
    /\ UNCHANGED <<validatorVars, isRunning, timers, isPlaying, animationProgress,
                   algorithm, quantum, pc, procs, gantt, currentTime,
                   sorted, fcfsIndex, remaining, allProcesses, readyQueue,
                   processIndex>>

\* Run Simulation on the list in the table (a list canRun accepts).
RunExample ==
    /\ pc = "table"
    /\ Len(processes) > 0
    /\ pc' = "call"
    /\ UNCHANGED <<validatorVars, viewVars, processes, algorithm, quantum, procs, gantt,
                   currentTime, sorted, fcfsIndex, remaining, allProcesses,
                   readyQueue, processIndex, result>>

\* The table starts empty; the policy and the quantum are chosen beforehand.
InitExample ==
    /\ algorithm \in Algorithms
    /\ quantum \in (IF algorithm = "RoundRobin" THEN 1..ExampleQuantum
                    ELSE {DefaultQuantum})
    /\ processes = <<>>
    /\ pc = "table"
    /\ procs = <<>>
    /\ gantt = <<>>
    /\ currentTime = 0
    /\ sorted = <<>>
    /\ fcfsIndex = 1
    /\ remaining = <<>>
    /\ allProcesses = <<>>
    /\ readyQueue = <<>>
    /\ processIndex = 0
    /\ result = null
    /\ candidate = null
    /\ validation = null
    /\ ViewAtRest

NextExample ==
    \/ LoadExample
    \/ DeleteProcess
    \/ RunExample
    \/ Dispatch
    \/ FCFSStep
    \/ SJFIdle
    \/ SJFSelect
    \/ PriorityIdle
    \/ PrioritySelect
    \/ RRIdle
    \/ RRSlice
    \/ Return

SpecExample == InitExample /\ [][NextExample]_vars

\* ------------------------------------------------------------------ any quantum
\* The quantum argument of a call: omitted (the default applies), or any
\* integer, positive, zero or negative.  Round Robin gets the positive ones.
AnyQuantumValues(alg) ==
    IF alg = "RoundRobin" THEN 1..(MaxQuantum + 1)
    ELSE {DefaultQuantum} \cup ((0 - MaxQuantum)..(MaxQuantum + 1))

\* Runs of every policy on non-empty lists with any quantum argument.
InitAnyQuantum ==
    /\ algorithm \in Algorithms
    /\ \E n \in 1..MaxProcs : \E f \in [1..n -> ValidFields(algorithm)] :
          processes = ProcessList(n, f)
    /\ quantum \in AnyQuantumValues(algorithm)
    /\ BeforeCall

NextAnyQuantum ==
    \/ Dispatch
    \/ FCFSStep
    \/ SJFIdle
    \/ SJFSelect
    \/ PriorityIdle
    \/ PrioritySelect
    \/ RRIdle
    \/ RRSlice
    \/ Return

SpecAnyQuantum == InitAnyQuantum /\ [][NextAnyQuantum]_vars

\* ------------------------------------------------------------------ computeMetrics alone
\* computeMetrics on the list and the timeline it is given.
DeriveMetrics ==
    /\ pc = "metrics"
    /\ result' = ComputeMetrics(procs, gantt)
    /\ pc' = "derived"
    /\ UNCHANGED <<validatorVars, viewVars, processes, algorithm, quantum, procs, gantt,
                   currentTime, sorted, fcfsIndex, remaining, allProcesses,
                   readyQueue, processIndex>>

\* computeMetrics is about to be called with any list of valid descriptors
\* and any timeline: segments of the list's pids or idle, in any order, and
\* possibly none for a process.
InitMetrics ==
    /\ algorithm = "FCFS"
    /\ quantum = DefaultQuantum
    /\ \E n \in 0..MetricsProcs :
       \E f \in [1..n -> [arrivalTime : 0..MetricsArrival,
                          burstTime : 1..MetricsBurst,
                          priority : {DefaultPriority}]] :
          /\ processes = ProcessList(n, f)
          /\ procs = processes
    /\ \E k \in 0..MetricsSegments :
          gantt \in [1..k -> [pid : {null} \cup {PidNames[i] : i \in 1..MetricsProcs},
                              start : 0..MetricsTime, end : 0..MetricsTime]]
    /\ pc = "metrics"
    /\ currentTime = 0
    /\ sorted = <<>>
    /\ fcfsIndex = 1
    /\ remaining = <<>>
    /\ allProcesses = <<>>
    /\ readyQueue = <<>>
    /\ processIndex = 0
    /\ result = null
    /\ candidate = null
    /\ validation = null
    /\ ViewAtRest

NextMetrics == DeriveMetrics

SpecMetrics == InitMetrics /\ [][NextMetrics]_vars

\* ------------------------------------------------------------------ non-positive quantum
\* Round Robin runs on non-empty lists with a quantum of either sign or 0.
InitNonPositiveQuantum ==
    /\ algorithm = "RoundRobin"
    /\ \E n \in 1..MaxProcs : \E f \in [1..n -> ValidFields(algorithm)] :
          processes = ProcessList(n, f)
    /\ quantum \in (0 - MaxQuantum)..MaxQuantum
    /\ BeforeCall

\* The runs are followed for their first MaxSlices segments.
NextNonPositiveQuantum ==
    \/ Dispatch
    \/ RRIdle
    \/ Len(gantt) < MaxSlices /\ RRSlice
    \/ Return

SpecNonPositiveQuantum == InitNonPositiveQuantum /\ [][NextNonPositiveQuantum]_vars

\* ------------------------------------------------------------------ shared pids
\* SJF and Priority runs on lists whose descriptors may share a pid, as the
\* process table lets them (a pid may be typed twice, and Add Process after a
\* delete reuses a pid); the insertion orders are distinct.
InitSharedPids ==
    /\ algorithm \in {"SJF", "Priority"}
    /\ \E n \in 1..MaxProcs : \E f \in [1..n -> PermutedFields(algorithm)] :
       \E pidAt \in [1..n -> 1..n] :
          processes = ProcessListWithPids(n, f, pidAt)
    /\ quantum = DefaultQuantum
    /\ BeforeCall

NextSharedPids ==
    \/ Dispatch
    \/ SJFIdle
    \/ SJFSelect
    \/ PriorityIdle
    \/ PrioritySelect
    \/ Return

SpecSharedPids == InitSharedPids /\ [][NextSharedPids]_vars

\* ------------------------------------------------------------------ any list order
\* The descriptors of ProcessListWithPids(n, f, pidAt) in the list order
\* given by order: the descriptor at position i is the one with insertion
\* order order[i] - 1.
ShuffledList(n, f, pidAt, order) ==
    [i \in 1..n |-> ProcessListWithPids(n, f, pidAt)[order[i]]]

\* Runs on lists of descriptors with unique pids and unique insertion orders,
\* in any list order.
InitShuffled ==
    /\ algorithm \in Algorithms
    /\ \E n \in 0..MaxProcs : \E f \in [1..n -> PermutedFields(algorithm)] :
       \E pidAt \in Permutations(1..n) : \E order \in Permutations(1..n) :
          processes = ShuffledList(n, f, pidAt, order)
    /\ quantum \in QuantumValues(algorithm, processes)
    /\ BeforeCall

SpecShuffled == InitShuffled /\ [][Next]_vars

\* ------------------------------------------------------------------ simulateSchedule as a function
\* The while loop of scheduleSJF (policy "SJF") and of schedulePriority
\* (policy "Priority"), which differ in the comparator only: the timeline
\* appended from time now on for the processes still in rem.
RECURSIVE SelectLoop(_, _, _)
SelectLoop(rem, now, policy) ==
    IF Len(rem) = 0 THEN <<>>
    ELSE LET available == Available(rem, now)
         IN  IF Len(available) = 0
             THEN LET nextArrival ==
                          MathMin({ rem[i].arrivalTime : i \in 1..Len(rem) })
                  IN  <<GanttSegment(null, now, nextArrival)>>
                          \o SelectLoop(rem, nextArrival, policy)
             ELSE LET selected ==
                          SortBy(available,
                                 [a, b \in Range(available) |->
                                     IF policy = "SJF" THEN CompareSJF(a, b)
                                     ELSE ComparePriority(a, b)])[1]
                      index == FindIndexByPid(rem, selected.pid)
                  IN  <<GanttSegment(selected.pid, now, now + selected.burstTime)>>
                          \o SelectLoop(Splice1(rem, index),
                                        now + selected.burstTime, policy)

ScheduleSJF(ps) == SelectLoop(ps, 0, "SJF")

SchedulePriority(ps) == SelectLoop(ps, 0, "Priority")

\* simulateSchedule as a function of its arguments, for a policy of Algorithms.
SimulateSchedule(ps, alg, q) ==
    IF Len(ps) = 0 THEN EmptyResult
    ELSE ComputeMetrics(ps, CASE alg = "FCFS" -> ScheduleFCFS(ps)
                              [] alg = "SJF" -> ScheduleSJF(ps)
                              [] alg = "Priority" -> SchedulePriority(ps)
                              [] alg = "RoundRobin" -> ScheduleRoundRobin(ps, q))

\* ------------------------------------------------------------------ ProcessTable
\* The decimal digits, '0' first.
Digits == <<"0", "1", "2", "3", "4", "5", "6", "7", "8", "9">>

IsDigit(c) == \E i \in 1..Len(Digits) : Digits[i] = c

DigitValue(c) == (CHOOSE i \in 1..Len(Digits) : Digits[i] = c) - 1

\* The value of a sequence of digits read in base 10.
RECURSIVE DigitsValue(_)
DigitsValue(str) ==
    IF str = <<>> THEN 0
    ELSE 10 * DigitsValue(SubSeq(str, 1, Len(str) - 1)) + DigitValue(str[Len(str)])

\* parseInt(value, 10): leading whitespace is skipped, a sign is read, then
\* the digits up to the first character that is not one; <<>> stands for NaN.
ParseInt(str) ==
    LET solid == { i \in 1..Len(str) : ~IsWhitespace(str[i]) }
        body == IF solid = {} THEN <<>>
                ELSE SubSeq(str, CHOOSE i \in solid : \A j \in solid : i <= j,
                            Len(str))
        signed == body # <<>> /\ body[1] \in {"+", "-"}
        rest == IF signed THEN Tail(body) ELSE body
        stops == { i \in 1..Len(rest) : ~IsDigit(rest[i]) }
        count == IF stops = {} THEN Len(rest)
                 ELSE (CHOOSE i \in stops : \A j \in stops : i <= j) - 1
        value == DigitsValue(SubSeq(rest, 1, count))
    IN  IF count = 0 THEN <<>>
        ELSE IF signed /\ body[1] = "-" THEN <<0 - value>> ELSE <<value>>

\* parseInt(value, 10) || 0
ParseIntOrZero(str) ==
    IF ParseInt(str) = <<>> \/ ParseInt(str)[1] = 0 THEN 0 ELSE ParseInt(str)[1]

\* What is typed into a number cell.
NumberTexts == {<<>>, <<"-", "1">>, <<"1">>}

\* What is typed into the pid cell.
PidTexts == {"", " ", "P1"}

\* The table's Add Process button.
AddProcess ==
    /\ pc = "table"
    /\ ~isRunning
    /\ Len(processes) < MaxRows
    /\ HandleProcessesChange(
           Append(processes,
                  Process(PidNames[Len(processes) + 1], 0, 1, 1, Len(processes))))
    /\ UNCHANGED <<validatorVars, viewVars, algorithm, quantum, pc, procs, gantt,
                   currentTime, sorted, fcfsIndex, remaining, allProcesses,
                   readyQueue, processIndex>>

\* updateProcess, for a cell of a row: the row with the typed value, and the
\* row's entry of the errors map from validateProcess.
UpdatedTo(index, updatedRow) ==
    LET updated == [processes EXCEPT ![index] = updatedRow]
        rowValidation == ValidateProcess(AsPartial(updated[index]))
    IN  /\ rowErrors' = IF ~rowValidation.valid
                        THEN MapSet(rowErrors, index, rowValidation.errors)
                        ELSE MapDelete(rowErrors, index)
        /\ HandleProcessesChange(updated)

\* An edit of one cell of the table, in one of its first MaxEditedRows rows.
UpdateProcess ==
    /\ pc = "table"
    /\ ~isRunning
    /\ \E index \in 1..Min(Len(processes), MaxEditedRows) :
          \/ \E value \in PidTexts :
                UpdatedTo(index, [processes[index] EXCEPT !.pid = value])
          \/ \E value \in NumberTexts :
                \/ UpdatedTo(index, [processes[index] EXCEPT
                                        !.arrivalTime = ParseIntOrZero(value)])
                \/ UpdatedTo(index, [processes[index] EXCEPT
                                        !.burstTime = ParseIntOrZero(value)])
                \/ UpdatedTo(index, [processes[index] EXCEPT
                                        !.priority = ParseIntOrZero(value)])
    /\ UNCHANGED <<validatorVars, isRunning, timers, isPlaying, animationProgress,
                   algorithm, quantum, pc, procs, gantt, currentTime,
                   sorted, fcfsIndex, remaining, allProcesses, readyQueue,
                   processIndex>>

\* The table's Clear All button (disabled on an empty table).
ClearAll ==
    /\ pc = "table"
    /\ ~isRunning
    /\ Len(processes) # 0
    /\ HandleProcessesChange(<<>>)
    /\ rowErrors' = <<>>
    /\ UNCHANGED <<validatorVars, isRunning, timers, isPlaying, animationProgress,
                   algorithm, quantum, pc, procs, gantt, currentTime,
                   sorted, fcfsIndex, remaining, allProcesses, readyQueue,
                   processIndex>>

\* The table as the App mounts it: empty, with the default policy and quantum.
InitTable ==
    /\ algorithm = "FCFS"
    /\ quantum = DefaultQuantum
    /\ processes = <<>>
    /\ pc = "table"
    /\ procs = <<>>
    /\ gantt = <<>>
    /\ currentTime = 0
    /\ sorted = <<>>
    /\ fcfsIndex = 1
    /\ remaining = <<>>
    /\ allProcesses = <<>>
    /\ readyQueue = <<>>
    /\ processIndex = 0
    /\ result = null
    /\ candidate = null
    /\ validation = null
    /\ ViewAtRest

\* The buttons of the table, without typing into cells, and a run of the
\* engine on the list they leave.
NextButtons ==
    \/ AddProcess
    \/ DeleteProcess
    \/ LoadExample
    \/ ClearAll
    \/ RunExample
    \/ Dispatch
    \/ FCFSStep
    \/ SJFIdle
    \/ SJFSelect
    \/ PriorityIdle
    \/ PrioritySelect
    \/ RRIdle
    \/ RRSlice
    \/ Return

SpecButtons == InitExample /\ [][NextButtons]_vars

\* Every operation of the table.
NextTable ==
    \/ AddProcess
    \/ UpdateProcess
    \/ DeleteProcess
    \/ LoadExample
    \/ ClearAll

SpecTable == InitTable /\ [][NextTable]_vars

\* ------------------------------------------------------------------ App
\* Mutant of CanRun: the burst time is not looked at.
CanRun_IgnoresBurst(ps) ==
    /\ Len(ps) > 0
    /\ \A i \in 1..Len(ps) :
          /\ Trim(CharsOf(ps[i].pid)) # <<>>
          /\ ps[i].arrivalTime >= 0
          /\ ps[i].priority >= 0

\* canRun: the list is not empty and every row has a pid that is not blank,
\* arrivalTime >= 0, burstTime > 0 and priority >= 0.
CanRun(ps) ==
    /\ Len(ps) > 0
    /\ \A i \in 1..Len(ps) :
          /\ Trim(CharsOf(ps[i].pid)) # <<>>
          /\ ps[i].arrivalTime >= 0
          /\ ps[i].burstTime > 0
          /\ ps[i].priority >= 0

\* A press of Run Simulation, which is disabled unless canRun && !isRunning:
\* handleRun sets isRunning and starts the 300 ms timer, whose callback closes
\* over the processes, algorithm and quantum of this render.
HandleRun ==
    /\ pc = "table"
    /\ CanRun(processes) /\ ~isRunning
    /\ isRunning' = TRUE
    /\ timers' = Append(timers, [processes |-> processes,
                                 algorithm |-> algorithm,
                                 quantum |-> quantum])
    /\ UNCHANGED <<validatorVars, rowErrors, isPlaying, animationProgress,
                   processes, algorithm, quantum, pc, procs, gantt, currentTime,
                   sorted, fcfsIndex, remaining, allProcesses, readyQueue,
                   processIndex, result>>

\* The timer of handleRun fires: simulateSchedule is called with what the
\* callback closed over, and its result is put on display.
RunCallback ==
    /\ pc = "table"
    /\ Len(timers) > 0
    /\ LET closure == Head(timers)
       IN  result' = SimulateSchedule(closure.processes, closure.algorithm,
                                      closure.quantum)
    /\ isRunning' = FALSE
    /\ timers' = Tail(timers)
    /\ UNCHANGED <<validatorVars, rowErrors, isPlaying, animationProgress,
                   processes, algorithm, quantum, pc, procs, gantt, currentTime,
                   sorted, fcfsIndex, remaining, allProcesses, readyQueue,
                   processIndex>>

\* The reset button of the controls, shown while a result is on display.
HandleReset ==
    /\ pc = "table"
    /\ HasResult
    /\ result' = null
    /\ UNCHANGED <<validatorVars, viewVars, processes, algorithm, quantum, pc,
                   procs, gantt, currentTime, sorted, fcfsIndex, remaining,
                   allProcesses, readyQueue, processIndex>>

\* The policy is chosen in the controls (never disabled).
SetAlgorithm ==
    /\ pc = "table"
    /\ algorithm' \in Algorithms
    /\ UNCHANGED <<validatorVars, viewVars, processes, quantum, pc, procs, gantt,
                   currentTime, sorted, fcfsIndex, remaining, allProcesses,
                   readyQueue, processIndex, result>>

\* The quantum is typed into the controls, whose input is enabled for Round
\* Robin only: Math.max(1, parseInt(value, 10) || 1).
SetQuantum ==
    /\ pc = "table"
    /\ algorithm = "RoundRobin"
    /\ \E value \in NumberTexts :
          LET parsed == ParseInt(value)
          IN  quantum' = Max(1, IF parsed = <<>> \/ parsed[1] = 0 THEN 1
                                ELSE parsed[1])
    /\ UNCHANGED <<validatorVars, viewVars, processes, algorithm, pc, procs, gantt,
                   currentTime, sorted, fcfsIndex, remaining, allProcesses,
                   readyQueue, processIndex, result>>

\* The App with its table edited by hand: rows are added, edited and deleted,
\* the policy and the quantum chosen, simulations run and results reset.
NextApp ==
    \/ AddProcess
    \/ UpdateProcess
    \/ DeleteProcess
    \/ ClearAll
    \/ SetAlgorithm
    \/ SetQuantum
    \/ HandleRun
    \/ RunCallback
    \/ HandleReset

SpecApp == InitTable /\ [][NextApp]_vars

\* ------------------------------------------------------------------ GanttChart
\* x >= y for numbers x >= 0 and y >= 0.
FGeq(x, y) == ~FLess(x, y)

\* currentSegmentIndex (counted from 0): -1 at progress 0, else the first
\* segment with start <= progress < end, else the last segment.
CurrentSegmentIndex(segments, progress) ==
    IF progress = Zero THEN 0 - 1
    ELSE LET hits == { i \in 1..Len(segments) :
                          /\ FGeq(progress, FromInt(segments[i].start))
                          /\ FLess(progress, FromInt(segments[i].end)) }
         IN  IF hits # {} THEN MathMin(hits) - 1 ELSE Len(segments) - 1

\* Variant of StepProgress: at progress 0 the first segment counts as the
\* current one, so that the segment stepped to is the second.
StepProgress_FromFirst(segments, totalTime, progress) ==
    LET current == IF progress = Zero THEN 0
                   ELSE CurrentSegmentIndex(segments, progress)
    IN  IF current + 2 \in 1..Len(segments)
        THEN FromInt(segments[current + 2].start)
        ELSE IF Len(segments) > 0 THEN FromInt(totalTime)
        ELSE progress

\* The progress handleStep sets: the start of segments[currentSegmentIndex + 1]
\* when there is one, else totalTime.
StepProgress(segments, totalTime, progress) ==
    LET next == CurrentSegmentIndex(segments, progress) + 1
    IN  IF next + 1 \in 1..Len(segments)
        THEN FromInt(segments[next + 1].start)
        ELSE IF Len(segments) > 0 THEN FromInt(totalTime)
        ELSE progress

\* Mutant of TickProgress: the progress is not capped at totalTime.
TickProgress_NoCap(totalTime, prev) == FAdd(prev, Tenth)

\* The progress a tick of the animation interval sets: prev + 0.1, capped at
\* totalTime.
TickProgress(totalTime, prev) ==
    LET newProgress == FAdd(prev, Tenth)
    IN  IF FGeq(newProgress, FromInt(totalTime)) THEN FromInt(totalTime)
        ELSE newProgress

\* The Play button, shown while the animation is paused.
HandlePlay ==
    /\ pc = "gantt"
    /\ ~isPlaying
    /\ animationProgress' =
           IF FGeq(animationProgress, FromInt(result.totalTime)) THEN Zero
           ELSE animationProgress
    /\ isPlaying' = TRUE
    /\ UNCHANGED <<validatorVars, isRunning, timers, rowErrors, processes,
                   algorithm, quantum, pc, procs, gantt, currentTime, sorted,
                   fcfsIndex, remaining, allProcesses, readyQueue, processIndex,
                   result>>

\* The Pause button, shown while the animation plays.
HandlePause ==
    /\ pc = "gantt"
    /\ isPlaying
    /\ isPlaying' = FALSE
    /\ UNCHANGED <<validatorVars, isRunning, timers, rowErrors, animationProgress,
                   processes, algorithm, quantum, pc, procs, gantt, currentTime,
                   sorted, fcfsIndex, remaining, allProcesses, readyQueue,
                   processIndex, result>>

\* The Step button.
HandleStep ==
    /\ pc = "gantt"
    /\ isPlaying' = FALSE
    /\ animationProgress' = StepProgress(result.ganttChart, result.totalTime,
                                         animationProgress)
    /\ UNCHANGED <<validatorVars, isRunning, timers, rowErrors, processes,
                   algorithm, quantum, pc, procs, gantt, currentTime, sorted,
                   fcfsIndex, remaining, allProcesses, readyQueue, processIndex,
                   result>>

\* The Reset button of the chart.
HandleAnimationReset ==
    /\ pc = "gantt"
    /\ isPlaying' = FALSE
    /\ animationProgress' = Zero
    /\ UNCHANGED <<validatorVars, isRunning, timers, rowErrors, processes,
                   algorithm, quantum, pc, procs, gantt, currentTime, sorted,
                   fcfsIndex, remaining, allProcesses, readyQueue, processIndex,
                   result>>

\* A tick of the interval that runs while the animation plays.
Tick ==
    /\ pc = "gantt"
    /\ isPlaying /\ Len(result.ganttChart) # 0
    /\ LET newProgress == FAdd(animationProgress, Tenth)
       IN  /\ animationProgress' = TickProgress(result.totalTime, animationProgress)
           /\ isPlaying' = IF FGeq(newProgress, FromInt(result.totalTime))
                           THEN FALSE ELSE isPlaying
    /\ UNCHANGED <<validatorVars, isRunning, timers, rowErrors, processes,
                   algorithm, quantum, pc, procs, gantt, currentTime, sorted,
                   fcfsIndex, remaining, allProcesses, readyQueue, processIndex,
                   result>>

\* The chart as it is mounted on the result of a simulation of a valid,
\* non-empty list: paused at progress 0.
InitGantt ==
    /\ algorithm \in Algorithms
    /\ \E n \in 1..GanttProcs :
       \E f \in [1..n -> [arrivalTime : 0..GanttArrival,
                          burstTime : 1..GanttBurst,
                          priority : {DefaultPriority}]] :
          processes = ProcessList(n, f)
    /\ quantum = IF algorithm = "RoundRobin" THEN 1 ELSE DefaultQuantum
    /\ result = SimulateSchedule(processes, algorithm, quantum)
    /\ pc = "gantt"
    /\ procs = <<>>
    /\ gantt = <<>>
    /\ currentTime = 0
    /\ sorted = <<>>
    /\ fcfsIndex = 1
    /\ remaining = <<>>
    /\ allProcesses = <<>>
    /\ readyQueue = <<>>
    /\ processIndex = 0
    /\ candidate = null
    /\ validation = null
    /\ ViewAtRest

NextGantt ==
    \/ HandlePlay
    \/ HandlePause
    \/ HandleStep
    \/ HandleAnimationReset
    \/ Tick

SpecGantt == InitGantt /\ [][NextGantt]_vars

\* ------------------------------------------------------------------ sanity
TypeOK ==
    /\ pc \in Algorithms \cup {"call", "done", "threw", "validate", "validated",
                               "table", "metrics", "derived", "gantt"}
    /\ currentTime \in Int
    /\ \A i \in 1..Len(gantt) : gantt[i].start \in Int /\ gantt[i].end \in Int


\* ================================================================== properties
\* Vocabulary of the properties: the input list and the timeline only.
InputPids == { processes[i].pid : i \in 1..Len(processes) }

InputProc(pid) == CHOOSE p \in Range(processes) : p.pid = pid

Duration(seg) == seg.end - seg.start

\* Indices of the segments of pid in timeline g.
SegmentsOf(g, pid) == { k \in 1..Len(g) : g[k].pid = pid }

\* CPU time pid received in the first k segments of g.
RECURSIVE WorkDone(_, _, _)
WorkDone(g, pid, k) ==
    IF k = 0 THEN 0
    ELSE WorkDone(g, pid, k - 1) + (IF g[k].pid = pid THEN Duration(g[k]) ELSE 0)

\* g starts at 0, every segment is non-empty and starts where the previous ended.
Contiguous(g) ==
    /\ Len(g) > 0 => g[1].start = 0
    /\ \A k \in 1..Len(g) : g[k].end > g[k].start
    /\ \A k \in 2..Len(g) : g[k].start = g[k - 1].end

Returned == pc = "done" /\ Len(processes) > 0

\* C1: for a non-empty valid list, every policy and quantum >= 1, the timeline
\* starts at 0, every segment has end > start, each segment starts where the
\* previous one ended, and totalTime is the end of the last segment.  The
\* timeline under construction has the same shape at every loop iteration.
C1_TimelineCoverage ==
    /\ Contiguous(gantt)
    /\ Returned =>
        /\ result.ganttChart = gantt
        /\ Len(result.ganttChart) > 0
        /\ Contiguous(result.ganttChart)
        /\ result.totalTime = result.ganttChart[Len(result.ganttChart)].end

\* A returned timeline with an idle segment between two process segments.
C1_Witness ==
    /\ Returned
    /\ \E k \in 2..(Len(result.ganttChart) - 1) :
        /\ result.ganttChart[k].pid = null
        /\ result.ganttChart[k - 1].pid # null
        /\ result.ganttChart[k + 1].pid # null

\* C2: work conservation: in the returned timeline the segments of each input
\* process p add up to p.burstTime, and every non-idle segment carries the pid
\* of an input process.
C2_WorkConservation ==
    /\ \A k \in 1..Len(gantt) : gantt[k].pid # null => gantt[k].pid \in InputPids
    /\ Returned =>
        \A i \in 1..Len(processes) :
            WorkDone(result.ganttChart, processes[i].pid, Len(result.ganttChart))
                = processes[i].burstTime

\* A returned Round Robin timeline in which some process ran in several slices.
C2_Witness ==
    /\ Returned
    /\ algorithm = "RoundRobin"
    /\ \E pid \in InputPids : Cardinality(SegmentsOf(result.ganttChart, pid)) >= 2

\* C3: arrival gating: under every policy no segment of a process starts
\* before the arrival time of that process.
C3_ArrivalGating ==
    \A k \in 1..Len(gantt) :
        gantt[k].pid # null => gantt[k].start >= InputProc(gantt[k].pid).arrivalTime

\* SJF ran a process while a shorter one had not arrived yet.
C3_Witness ==
    /\ Returned
    /\ algorithm = "SJF"
    /\ \E k \in 1..Len(gantt) : \E q \in Range(processes) :
        /\ gantt[k].pid # null
        /\ q.burstTime < InputProc(gantt[k].pid).burstTime
        /\ q.arrivalTime > gantt[k].start

\* The non-idle segments of g, in order.
NonIdle(g) ==
    LET Busy(seg) == seg.pid # null
    IN  SelectSeq(g, Busy)

\* Strict order on (arrivalTime, insertionOrder).
ArrivalKeyLess(a, b) ==
    \/ a.arrivalTime < b.arrivalTime
    \/ a.arrivalTime = b.arrivalTime /\ a.insertionOrder < b.insertionOrder

\* C4: FCFS runs the processes in ascending (arrivalTime, insertionOrder)
\* order: the k-th non-idle segment belongs to the process with exactly k - 1
\* processes before it in that order, every process gets a segment, and each
\* segment starts at max(end of the previous process segment, arrivalTime).
C4_FCFSOrder ==
    algorithm = "FCFS" =>
        LET ni == NonIdle(gantt)
        IN  /\ \A k \in 1..Len(ni) :
                LET p == InputProc(ni[k].pid)
                IN  /\ Cardinality({ q \in Range(processes) : ArrivalKeyLess(q, p) }) = k - 1
                    /\ ni[k].start = Max(IF k = 1 THEN 0 ELSE ni[k - 1].end, p.arrivalTime)
            /\ Returned => Len(ni) = Len(processes)

\* A returned FCFS timeline of three processes, two of them with the same
\* arrival time, one started on arrival after an idle period and one kept waiting.
C4_Witness ==
    /\ Returned
    /\ algorithm = "FCFS"
    /\ Len(processes) = 3
    /\ \E i, j \in 1..Len(processes) :
        i # j /\ processes[i].arrivalTime = processes[j].arrivalTime
    /\ \E k \in 2..Len(gantt) :
        gantt[k].pid # null /\ gantt[k - 1].pid = null
    /\ \E k \in 1..Len(gantt) :
        gantt[k].pid # null /\ gantt[k].start > InputProc(gantt[k].pid).arrivalTime

\* The processes a non-preemptive policy can choose from at segment k: not
\* run in an earlier segment and arrived by the start of segment k.
Candidates(g, k) ==
    { q \in Range(processes) :
        /\ q.pid \notin { g[j].pid : j \in 1..(k - 1) }
        /\ q.arrivalTime <= g[k].start }

\* Lexicographic order on (burstTime, arrivalTime, insertionOrder).
SJFKeyLeq(a, b) ==
    \/ a.burstTime < b.burstTime
    \/ /\ a.burstTime = b.burstTime
       /\ \/ a.arrivalTime < b.arrivalTime
          \/ a.arrivalTime = b.arrivalTime /\ a.insertionOrder <= b.insertionOrder

\* Lexicographic order on (priority, arrivalTime, insertionOrder).
PriorityKeyLeq(a, b) ==
    \/ a.priority < b.priority
    \/ /\ a.priority = b.priority
       /\ \/ a.arrivalTime < b.arrivalTime
          \/ a.arrivalTime = b.arrivalTime /\ a.insertionOrder <= b.insertionOrder

\* C5: at every non-idle decision of SJF the process started is the minimum
\* under (burstTime, arrivalTime, insertionOrder) among the processes not yet
\* run that have arrived by the decision time.
C5_SJFSelection ==
    algorithm = "SJF" =>
        \A k \in 1..Len(gantt) :
            gantt[k].pid # null =>
                LET selected == InputProc(gantt[k].pid)
                IN  /\ selected \in Candidates(gantt, k)
                    /\ \A q \in Candidates(gantt, k) : SJFKeyLeq(selected, q)

\* An SJF decision settled by the arrival-time tie-break, against insertion order.
C5_Witness ==
    /\ algorithm = "SJF"
    /\ \E k \in 1..Len(gantt) :
        /\ gantt[k].pid # null
        /\ \E q \in Candidates(gantt, k) :
            /\ q.burstTime = InputProc(gantt[k].pid).burstTime
            /\ q.arrivalTime > InputProc(gantt[k].pid).arrivalTime
            /\ q.insertionOrder < InputProc(gantt[k].pid).insertionOrder

\* C6: at every non-idle decision of the Priority policy the process started
\* is the minimum under (priority, arrivalTime, insertionOrder), the lower
\* priority number winning, among the processes not yet run that have arrived.
C6_PrioritySelection ==
    algorithm = "Priority" =>
        \A k \in 1..Len(gantt) :
            gantt[k].pid # null =>
                LET selected == InputProc(gantt[k].pid)
                IN  /\ selected \in Candidates(gantt, k)
                    /\ \A q \in Candidates(gantt, k) : PriorityKeyLeq(selected, q)

\* A Priority decision in which the lower priority number beat a process that
\* is shorter, arrived earlier and was inserted earlier.
C6_Witness ==
    /\ algorithm = "Priority"
    /\ \E k \in 1..Len(gantt) :
        /\ gantt[k].pid # null
        /\ \E q \in Candidates(gantt, k) :
            /\ q.priority > InputProc(gantt[k].pid).priority
            /\ q.burstTime < InputProc(gantt[k].pid).burstTime
            /\ q.arrivalTime < InputProc(gantt[k].pid).arrivalTime
            /\ q.insertionOrder < InputProc(gantt[k].pid).insertionOrder

\* C7: Round Robin slicing: every non-idle segment lasts min(quantum, burst
\* the process still needed before it); so no segment is longer than the
\* quantum, every segment of a process but its last lasts exactly the quantum,
\* and consecutive slices of one process stay separate segments.
C7_QuantumSlicing ==
    algorithm = "RoundRobin" =>
        \A k \in 1..Len(gantt) :
            gantt[k].pid # null =>
                LET needed == InputProc(gantt[k].pid).burstTime
                                - WorkDone(gantt, gantt[k].pid, k - 1)
                IN  /\ Duration(gantt[k]) = Min(quantum, needed)
                    /\ Duration(gantt[k]) <= quantum
                    /\ (\E m \in (k + 1)..Len(gantt) : gantt[m].pid = gantt[k].pid)
                            => Duration(gantt[k]) = quantum

\* A returned Round Robin timeline where a process ran two slices back to
\* back, a full quantum and then a shorter last slice.
C7_Witness ==
    /\ Returned
    /\ algorithm = "RoundRobin"
    /\ \E k \in 1..(Len(gantt) - 1) :
        /\ gantt[k].pid # null
        /\ gantt[k + 1].pid = gantt[k].pid
        /\ Duration(gantt[k]) = quantum
        /\ Duration(gantt[k + 1]) < quantum

\* References (indices into allProcesses) that have been enqueued so far:
\* in the ready queue now, or already given a segment.
Enqueued ==
    Range(readyQueue)
        \cup { i \in 1..Len(allProcesses) : SegmentsOf(gantt, allProcesses[i].pid) # {} }

\* One Round Robin slice, seen on the ready queue: behind the processes that
\* were waiting come the processes that arrived by the end of the slice and
\* were not enqueued before, in (arrivalTime, insertionOrder) order, and only
\* then the preempted process if it is unfinished.
C8_QueueStep ==
    (pc = "RoundRobin" /\ Len(readyQueue) > 0) =>
        LET current == Head(readyQueue)
            waiting == Tail(readyQueue)
            unfinished == allProcesses'[current].remainingBurst > 0
            arrived == { i \in 1..Len(allProcesses) :
                            /\ i \notin Enqueued
                            /\ allProcesses[i].arrivalTime <= currentTime' }
            back == IF unfinished THEN <<current>> ELSE <<>>
            newLen == Len(readyQueue') - Len(waiting) - Len(back)
            new == SubSeq(readyQueue', Len(waiting) + 1, Len(waiting) + newLen)
        IN  /\ newLen = Cardinality(arrived)
            /\ readyQueue' = waiting \o new \o back
            /\ Range(new) = arrived
            /\ \A a, b \in 1..Len(new) :
                a < b => ArrivalKeyLess(allProcesses[new[a]], allProcesses[new[b]])

\* Seen on the timeline: a process that arrives during a slice of p, or
\* exactly at its end, runs before the next slice of p.
C8_RunsBefore ==
    algorithm = "RoundRobin" =>
        \A k \in 1..Len(gantt) : \A m \in (k + 1)..Len(gantt) :
            (gantt[k].pid # null /\ gantt[m].pid = gantt[k].pid) =>
                \A r \in Range(processes) :
                    (/\ r.pid # gantt[k].pid
                     /\ r.arrivalTime > gantt[k].start
                     /\ r.arrivalTime <= gantt[k].end)
                        => \E j \in (k + 1)..(m - 1) : gantt[j].pid = r.pid

\* C8: Round Robin re-queue order: when a slice of p ends with p unfinished,
\* the processes that arrived by then and were not yet enqueued join the
\* ready queue, in (arrivalTime, insertionOrder) order, before p is pushed to
\* the back; so a process arriving during or at the end of the slice runs
\* before the next slice of p.
C8_RequeueOrder == [][C8_QueueStep]_vars /\ []C8_RunsBefore

\* A preempted process stands in the ready queue right behind two processes
\* that both arrived during its slice, the second exactly at the end of it.
C8_Witness ==
    /\ pc = "RoundRobin"
    /\ Len(gantt) = 1
    /\ Len(readyQueue) = 3
    /\ allProcesses[readyQueue[3]].pid = gantt[1].pid
    /\ allProcesses[readyQueue[1]].arrivalTime > gantt[1].start
    /\ allProcesses[readyQueue[1]].arrivalTime < gantt[1].end
    /\ allProcesses[readyQueue[2]].arrivalTime = gantt[1].end

\* The input processes that still need CPU time before segment k of g.
UnfinishedAt(g, k) ==
    { q \in Range(processes) : WorkDone(g, q.pid, k - 1) < q.burstTime }

\* C9: idle handling: a segment [s, e) is idle exactly when unfinished
\* processes remain and none of them has arrived by s, and then e is the
\* smallest arrival time among them; the CPU never idles while an arrived
\* process is unfinished.
C9_IdleHandling ==
    \A k \in 1..Len(gantt) :
        LET unfinished == UnfinishedAt(gantt, k)
            noneArrived == \A q \in unfinished : q.arrivalTime > gantt[k].start
        IN  /\ unfinished # {}
            /\ gantt[k].pid = null <=> noneArrived
            /\ gantt[k].pid = null =>
                /\ \E q \in unfinished : gantt[k].end = q.arrivalTime
                /\ \A q \in unfinished : gantt[k].end <= q.arrivalTime

\* An idle segment ended by the earlier of two different arrival times still
\* to come.
C9_Witness ==
    \E k \in 1..Len(gantt) :
        /\ gantt[k].pid = null
        /\ \E q, r \in UnfinishedAt(gantt, k) :
            q.arrivalTime = gantt[k].end /\ r.arrivalTime > gantt[k].end

\* C10: non-preemption: under FCFS, SJF and Priority no process ever has more
\* than one segment, every process segment lasts the whole burst time, and
\* in the returned timeline every input process has exactly one segment.
C10_NonPreemption ==
    algorithm \in {"FCFS", "SJF", "Priority"} =>
        /\ \A pid \in InputPids :
            /\ Cardinality(SegmentsOf(gantt, pid)) <= 1
            /\ Returned => Cardinality(SegmentsOf(result.ganttChart, pid)) = 1
        /\ \A k \in 1..Len(gantt) :
            gantt[k].pid # null =>
                Duration(gantt[k]) = InputProc(gantt[k].pid).burstTime

\* A returned SJF timeline in which a shorter process arrived while a longer
\* one was running and had to wait for it to complete.
C10_Witness ==
    /\ Returned
    /\ algorithm = "SJF"
    /\ \E k \in 1..Len(gantt) : \E q \in Range(processes) :
        /\ gantt[k].pid # null
        /\ q.arrivalTime > gantt[k].start
        /\ q.arrivalTime < gantt[k].end
        /\ q.burstTime < InputProc(gantt[k].pid).burstTime

\* The entry of pid in the returned metrics.
MetricsEntry(pid) ==
    CHOOSE m \in Range(result.processMetrics) : m.pid = pid

\* C11: metric derivation: for every input process p of a run, completionTime
\* is the end of p's last timeline segment, turnaroundTime is completionTime -
\* arrivalTime, waitingTime is max(0, turnaroundTime - burstTime), and
\* responseTime is max(0, start of p's first timeline segment - arrivalTime).
C11_MetricDerivation ==
    Returned =>
        \A i \in 1..Len(processes) :
            LET p == processes[i]
                m == MetricsEntry(p.pid)
                segs == SegmentsOf(result.ganttChart, p.pid)
                first == CHOOSE k \in segs : \A j \in segs : k <= j
                last == CHOOSE k \in segs : \A j \in segs : j <= k
            IN  /\ segs # {}
                /\ m.completionTime = result.ganttChart[last].end
                /\ m.turnaroundTime = m.completionTime - p.arrivalTime
                /\ m.waitingTime = Max(0, m.turnaroundTime - p.burstTime)
                /\ m.responseTime =
                       Max(0, result.ganttChart[first].start - p.arrivalTime)

\* A returned Round Robin run in which a process ran in several slices, waited
\* before its first slice and waited again between slices.
C11_Witness ==
    /\ Returned
    /\ algorithm = "RoundRobin"
    /\ \E pid \in InputPids :
        /\ Cardinality(SegmentsOf(result.ganttChart, pid)) >= 2
        /\ MetricsEntry(pid).responseTime > 0
        /\ MetricsEntry(pid).waitingTime > MetricsEntry(pid).responseTime

\* C12: non-negativity: for all valid inputs, all four policies and every
\* quantum >= 1, every process's waitingTime and responseTime in the result
\* is >= 0.
C12_NonNegativity ==
    Returned =>
        \A i \in 1..Len(result.processMetrics) :
            /\ result.processMetrics[i].waitingTime >= 0
            /\ result.processMetrics[i].responseTime >= 0

\* A returned run in which one process started on arrival (both metrics 0)
\* and another one had to wait (both metrics positive).
C12_Witness ==
    /\ Returned
    /\ \E i, j \in 1..Len(result.processMetrics) :
        /\ result.processMetrics[i].waitingTime = 0
        /\ result.processMetrics[i].responseTime = 0
        /\ result.processMetrics[j].waitingTime > 0
        /\ result.processMetrics[j].responseTime > 0

\* Sum of the durations of the non-idle segments of g.
NonIdleTime(g) ==
    SumTo([k \in 1..Len(g) |-> IF g[k].pid = null THEN 0 ELSE Duration(g[k])],
          Len(g))

\* The number x times the natural number k, not rounded, agrees with the
\* natural number n once both are rounded to four bits less than a number
\* holds: x * k is n up to the rounding of the operations that made x.
ProductNear(x, k, n) ==
    IF n = 0 THEN x = Zero
    ELSE /\ x # Zero
         /\ x # NaN
         /\ RoundBits(x.neg, MulBits(x.m, k, 0), x.e, Precision - 4)
                = RoundBits(FALSE, BinaryOf(n), 0, Precision - 4)

\* C13 as stated: for every non-empty run cpuUtilization * totalTime =
\* 100 * busyTime (the product taken as the program's numbers take it), and
\* cpuUtilization is 0 when totalTime is 0.
C13_ExactProduct ==
    /\ Returned =>
        FMul(result.cpuUtilization, result.totalTime)
            = FromInt(100 * NonIdleTime(result.ganttChart))
    /\ (pc = "done" /\ result.totalTime = 0) => result.cpuUtilization = Zero

\* C13: CPU utilization: for every non-empty run cpuUtilization is
\* (busyTime / totalTime) * 100 in double-precision arithmetic, so
\* cpuUtilization * totalTime is 100 * busyTime up to the rounding of the
\* division and the multiplication; it is exactly 100 when no segment is idle
\* and exactly 60 for one process with arrival 2 and burst 3; where busyTime
\* is the sum of the durations of the non-idle segments and totalTime is the
\* end of the last segment.  cpuUtilization is 0 when totalTime is 0.
C13_CpuUtilization ==
    /\ Returned =>
        LET busyTime == NonIdleTime(result.ganttChart)
            totalTime == result.ganttChart[Len(result.ganttChart)].end
        IN  /\ result.totalTime = totalTime
            /\ ProductNear(result.cpuUtilization, totalTime, 100 * busyTime)
            /\ busyTime = totalTime => result.cpuUtilization = FromInt(100)
            /\ (busyTime = 3 /\ totalTime = 5)
                   => result.cpuUtilization = FromInt(60)
    /\ (pc = "done" /\ result.totalTime = 0) => result.cpuUtilization = Zero

\* A returned run that was busy 1 time unit of 3: its cpuUtilization is the
\* number nearest to 100/3 times 100, and three times it is not 100.
C13_Witness ==
    /\ Returned
    /\ NonIdleTime(result.ganttChart) = 1
    /\ result.totalTime = 3
    /\ FMul(result.cpuUtilization, 3) # FromInt(100)

\* Sums of the per-process metrics of the result.
SumWaiting ==
    SumTo([i \in 1..Len(result.processMetrics) |->
              result.processMetrics[i].waitingTime], Len(result.processMetrics))

SumTurnaround ==
    SumTo([i \in 1..Len(result.processMetrics) |->
              result.processMetrics[i].turnaroundTime], Len(result.processMetrics))

SumResponse ==
    SumTo([i \in 1..Len(result.processMetrics) |->
              result.processMetrics[i].responseTime], Len(result.processMetrics))

\* C14 as stated: for every non-empty run with n processes, each average times
\* n (the product taken as the program's numbers take it) equals the sum of
\* that metric over the result's metrics.
C14_ExactMeans ==
    Returned =>
        LET n == Len(processes)
        IN  /\ FMul(result.averageWaitingTime, n) = FromInt(SumWaiting)
            /\ FMul(result.averageTurnaroundTime, n) = FromInt(SumTurnaround)
            /\ FMul(result.averageResponseTime, n) = FromInt(SumResponse)

\* avg is the mean of n values adding up to sum, as a double-precision
\* quotient: avg * n is sum up to the rounding of the division, and exactly
\* sum when the mean is exactly representable (n divides sum, or n is 1, 2
\* or 4).
MeanOf(avg, sum, n) ==
    /\ ProductNear(avg, n, sum)
    /\ (sum % n = 0 \/ n \in {1, 2, 4}) => FMul(avg, n) = FromInt(sum)
    /\ sum % n = 0 => avg = FromInt(sum \div n)

\* C14: averages: for every non-empty run with n processes,
\* averageWaitingTime, averageTurnaroundTime and averageResponseTime are the
\* unweighted arithmetic means of the per-process waitingTime, turnaroundTime
\* and responseTime of the result's metrics, as double-precision quotients
\* sum / n: each average times n is the sum up to floating-point rounding, and
\* exactly the sum when n divides the sum or n is 1, 2 or 4.
C14_Averages ==
    Returned =>
        LET n == Len(processes)
        IN  /\ Len(result.processMetrics) = n
            /\ MeanOf(result.averageWaitingTime, SumWaiting, n)
            /\ MeanOf(result.averageTurnaroundTime, SumTurnaround, n)
            /\ MeanOf(result.averageResponseTime, SumResponse, n)

\* A returned run of 7 processes whose turnaround times add up to 29: the
\* average is the number nearest to 29/7, and 7 times it is not 29.
C14_Witness ==
    /\ Returned
    /\ Len(processes) = 7
    /\ SumTurnaround = 29
    /\ FMul(result.averageTurnaroundTime, 7) # FromInt(29)

\* C15: empty input: simulateSchedule on an empty process list returns, for
\* every recognized policy and any quantum, an empty timeline (no idle filler
\* segment), empty metrics, all three averages 0, cpuUtilization 0 and
\* totalTime 0.
C15_EmptyInput ==
    (Len(processes) = 0 /\ algorithm \in Algorithms) =>
        /\ gantt = <<>>
        /\ pc \in {"call", "done"}
        /\ pc = "done" =>
            /\ result.ganttChart = <<>>
            /\ result.processMetrics = <<>>
            /\ result.averageWaitingTime = Zero
            /\ result.averageTurnaroundTime = Zero
            /\ result.averageResponseTime = Zero
            /\ result.cpuUtilization = Zero
            /\ result.totalTime = 0

\* simulateSchedule returned for an empty list under Round Robin with a
\* quantum that is not positive.
C15_Witness ==
    /\ pc = "done"
    /\ Len(processes) = 0
    /\ algorithm = "RoundRobin"
    /\ quantum <= 0

\* C16: unsupported policy: simulateSchedule called with a policy token that
\* is not one of FCFS, SJF, Priority, RoundRobin fails the whole call and
\* returns no result and no partial timeline, for every process list it is
\* given, the empty list included.
C16_UnsupportedPolicy ==
    algorithm \notin Algorithms =>
        /\ pc \in {"call", "threw"}
        /\ result = null
        /\ gantt = <<>>

\* What the code does with an unrecognized token: it throws for every
\* non-empty list and returns the zero result for the empty list.
C16_ThrowsUnlessEmpty ==
    algorithm \notin Algorithms =>
        /\ gantt = <<>>
        /\ Len(processes) # 0 => pc \in {"call", "threw"} /\ result = null
        /\ Len(processes) = 0 =>
            /\ pc \in {"call", "done"}
            /\ pc = "done" => result = EmptyResult

\* The call with the unknown token threw on a non-empty list.
C16_WitnessThrew ==
    /\ algorithm \notin Algorithms
    /\ Len(processes) > 0
    /\ pc = "threw"

\* The call with the unknown token returned on the empty list.
C16_WitnessReturned ==
    /\ algorithm \notin Algorithms
    /\ Len(processes) = 0
    /\ pc = "done"

\* C17: input is read-only: for any of the four policies no step of
\* simulateSchedule changes the caller's process list, so after the call it
\* has the same length and order and every descriptor has the same pid,
\* arrivalTime, burstTime, priority and insertionOrder as before the call
\* (Round Robin's remaining-burst bookkeeping and the sorts act on copies).
C17_InputReadOnly == [][processes' = processes]_vars

\* A returned Round Robin run whose sorted working list is in another order
\* than the caller's list and has every remaining burst run down to 0.
C17_Witness ==
    /\ Returned
    /\ algorithm = "RoundRobin"
    /\ Len(allProcesses) = Len(processes)
    /\ \E i \in 1..Len(processes) : allProcesses[i].pid # processes[i].pid
    /\ \A i \in 1..Len(allProcesses) :
        /\ allProcesses[i].remainingBurst = 0
        /\ InputProc(allProcesses[i].pid).burstTime > 0

\* Sum of the burst times of the input.
TotalBurst ==
    SumTo([i \in 1..Len(processes) |-> processes[i].burstTime], Len(processes))

\* The timeline has at most (sum of all burstTimes) + (number of processes)
\* segments; every loop iteration emits at least one segment.
C18_Bound == Len(gantt) <= TotalBurst + Len(processes)

\* A measure of the work left: the segments the timeline may still grow by,
\* and the steps of the call around the loop.
C18_Rank ==
    2 * (TotalBurst + Len(processes) - Len(gantt))
        + (IF pc = "call" THEN 2 ELSE IF pc = "done" THEN 0 ELSE 1)

\* Until the call has returned a step is possible: the call starts; while its
\* loop condition holds the running scheduler has an iteration to take; when
\* the condition fails, Return, which asks for nothing else, is the step.
C18_CanStep ==
    /\ pc \in Algorithms \cup {"call", "done"}
    /\ pc = "call" => ENABLED (CallEmpty \/ Dispatch)
    /\ (pc \in Algorithms /\ LoopRuns) =>
           ENABLED (FCFSStep \/ SJFIdle \/ SJFSelect \/ PriorityIdle
                        \/ PrioritySelect \/ RRIdle \/ RRSlice)

\* C18: termination with bound: for every finite valid process list, every
\* policy and every quantum >= 1, the scheduling loop terminates, and the
\* number of loop iterations (equivalently, emitted timeline segments, idle
\* ones included) is at most (sum of all burstTimes) + (number of processes):
\* the timeline never has more segments than that, every step strictly
\* decreases a measure that is never negative, and a step is possible until
\* the call has returned.
C18_Termination ==
    /\ []C18_Bound
    /\ [](C18_Rank >= 0)
    /\ [][C18_Rank' < C18_Rank]_vars
    /\ []C18_CanStep

\* A returned run whose timeline reaches the bound: every process segment
\* lasts one time unit and there are as many idle segments as processes.
C18_Witness ==
    /\ Returned
    /\ Len(gantt) = TotalBurst + Len(processes)

\* Position of a pid in the ascending order of pids.
PidRank(pid) == CHOOSE i \in 1..Len(PidNames) : PidNames[i] = pid

\* C19: metrics shape: for a non-empty input with unique ids, the result's
\* metrics list has exactly one entry per input process, each entry echoes
\* that process's pid, arrivalTime, burstTime and priority unchanged, and the
\* entries are sorted in ascending order of pid regardless of the input order
\* or the scheduling order.
C19_MetricsShape ==
    Returned =>
        LET pm == result.processMetrics
        IN  /\ Len(pm) = Len(processes)
            /\ \A i \in 1..Len(processes) :
                /\ Cardinality({ j \in 1..Len(pm) : pm[j].pid = processes[i].pid }) = 1
                /\ \E j \in 1..Len(pm) :
                    /\ pm[j].pid = processes[i].pid
                    /\ pm[j].arrivalTime = processes[i].arrivalTime
                    /\ pm[j].burstTime = processes[i].burstTime
                    /\ pm[j].priority = processes[i].priority
            /\ \A j, k \in 1..Len(pm) :
                j < k => PidRank(pm[j].pid) < PidRank(pm[k].pid)

\* A returned run of three processes given in descending order of pid and run
\* in an order that is neither ascending nor descending.
C19_Witness ==
    /\ Returned
    /\ Len(processes) = 3
    /\ \A i \in 1..2 : PidRank(processes[i].pid) > PidRank(processes[i + 1].pid)
    /\ Len(gantt) >= 3
    /\ PidRank(NonIdle(gantt)[1].pid) = 2
    /\ PidRank(NonIdle(gantt)[2].pid) = 3

\* The four rules of validateProcess, each on its own.
PidRuleBroken ==
    \/ candidate.pid = <<>>
    \/ \A i \in 1..Len(candidate.pid[1]) : IsWhitespace(candidate.pid[1][i])

ArrivalRuleBroken ==
    candidate.arrivalTime = <<>> \/ ~(candidate.arrivalTime[1] >= 0)

BurstRuleBroken ==
    candidate.burstTime = <<>> \/ ~(candidate.burstTime[1] > 0)

PriorityRuleBroken ==
    candidate.priority = <<>> \/ ~(candidate.priority[1] >= 0)

\* C20: validator independence: validateProcess checks the four rules
\* independently (pid non-empty after trimming; arrivalTime present and >= 0;
\* burstTime present and > 0; priority present and >= 0); errors contains
\* exactly one message per violated rule, in the fixed order pid, arrival,
\* burst, priority, and valid is true if and only if errors is empty.  It
\* never throws: every call returns.
C20_ValidatorIndependence ==
    /\ pc = "validate" => ENABLED Validate
    /\ pc = "validated" =>
        /\ validation.errors =
               (IF PidRuleBroken THEN <<"Process ID is required">> ELSE <<>>)
            \o (IF ArrivalRuleBroken THEN <<"Arrival time must be >= 0">> ELSE <<>>)
            \o (IF BurstRuleBroken THEN <<"Burst time must be > 0">> ELSE <<>>)
            \o (IF PriorityRuleBroken THEN <<"Priority must be >= 0">> ELSE <<>>)
        /\ validation.valid <=> validation.errors = <<>>

\* validateProcess returned four messages for a descriptor whose pid is
\* blanks only, whose arrival time is negative, whose burst time is 0 and
\* whose priority is missing.
C20_Witness ==
    /\ pc = "validated"
    /\ candidate.pid = << <<" ", " ">> >>
    /\ candidate.arrivalTime = <<-1>>
    /\ candidate.burstTime = <<0>>
    /\ candidate.priority = <<>>
    /\ Len(validation.errors) = 4
    /\ ~validation.valid

\* A list of five descriptors that each pass validateProcess, with pairwise
\* distinct pids and insertion orders 0, 1, 2, 3, 4 in list order.
ExampleShape(list) ==
    /\ Len(list) = 5
    /\ \A i \in 1..Len(list) :
          /\ ValidateProcess(AsPartial(list[i])) = [valid |-> TRUE, errors |-> <<>>]
          /\ list[i].insertionOrder = i - 1
    /\ \A i, j \in 1..Len(list) : list[i].pid = list[j].pid => i = j

\* C21: example set: every call of getExampleProcesses returns a list of 5
\* descriptors, each of which passes validateProcess, with pairwise-distinct
\* pids and insertionOrder 0,1,2,3,4 in list order; the call returns a fresh
\* list with the same values: whatever the caller did to the list of an
\* earlier call (rows deleted and renumbered), the new list is complete again
\* and the rows that were left agree with it in arrival time, burst time and
\* priority.
C21_ExampleSet ==
    [][LoadExample =>
          /\ ExampleShape(processes')
          /\ \A i \in 1..Len(processes) : \E j \in 1..Len(processes') :
                /\ processes'[j].pid = processes[i].pid
                /\ processes'[j].arrivalTime = processes[i].arrivalTime
                /\ processes'[j].burstTime = processes[i].burstTime
                /\ processes'[j].priority = processes[i].priority]_vars

\* The example set is in the table, loaded and not yet run.
C21_Witness ==
    /\ pc = "table"
    /\ Len(processes) = 5
    /\ result = null
    /\ processes[5].pid = "P5"

\* The double nearest to 13.4 (16r1ACCCCCCCCCCCD * 2^-49), shown as 13.40.
Double13_40 ==
    [neg |-> FALSE,
     m |-> BitsOf(6860, 13) \o BitsOf(3276, 12) \o BitsOf(3276, 12)
              \o BitsOf(3276, 12) \o BitsOf(13, 4),
     e |-> -49]

\* The double nearest to 8.2 (16r10666666666666 * 2^-49), shown as 8.20.
Double8_20 ==
    [neg |-> FALSE,
     m |-> BitsOf(4198, 13) \o BitsOf(1638, 12) \o BitsOf(1638, 12)
              \o BitsOf(1638, 12) \o BitsOf(6, 4),
     e |-> -49]

\* One row of the metrics table of the worked example.
ExampleRow(pid, arrivalTime, burstTime, priority, completionTime,
           turnaroundTime, waitingTime, responseTime) ==
    [pid |-> pid, arrivalTime |-> arrivalTime, burstTime |-> burstTime,
     priority |-> priority, completionTime |-> completionTime,
     waitingTime |-> waitingTime, turnaroundTime |-> turnaroundTime,
     responseTime |-> responseTime]

\* The FCFS run of the complete example set has returned.
ExampleRunFCFS ==
    /\ pc = "done"
    /\ algorithm = "FCFS"
    /\ Len(processes) = 5

\* C22: worked example: simulateSchedule(getExampleProcesses(), FCFS) yields
\* the timeline P1 0-5, P2 5-8, P3 8-16, P4 16-22, P5 22-26 with no idle
\* segment; completion times 5, 8, 16, 22, 26; turnaround 5, 7, 14, 19, 22;
\* waiting 0, 4, 6, 13, 18; response 0, 4, 6, 13, 18 (sums 67, 41, 41 over 5
\* processes, i.e. averages 13.40, 8.20, 8.20) and CPU utilization 100.
C22_WorkedExample ==
    ExampleRunFCFS =>
        /\ result.ganttChart =
              <<GanttSegment("P1", 0, 5), GanttSegment("P2", 5, 8),
                GanttSegment("P3", 8, 16), GanttSegment("P4", 16, 22),
                GanttSegment("P5", 22, 26)>>
        /\ result.processMetrics =
              <<ExampleRow("P1", 0, 5, 2, 5, 5, 0, 0),
                ExampleRow("P2", 1, 3, 1, 8, 7, 4, 4),
                ExampleRow("P3", 2, 8, 4, 16, 14, 6, 6),
                ExampleRow("P4", 3, 6, 3, 22, 19, 13, 13),
                ExampleRow("P5", 4, 4, 2, 26, 22, 18, 18)>>
        /\ result.averageTurnaroundTime = Double13_40
        /\ result.averageWaitingTime = Double8_20
        /\ result.averageResponseTime = Double8_20
        /\ result.cpuUtilization = FromInt(100)
        /\ result.totalTime = 26

\* The FCFS run of the example set returned with P5 completing at 26.
C22_Witness ==
    /\ ExampleRunFCFS
    /\ Len(result.ganttChart) = 5
    /\ result.ganttChart[5].pid = "P5"
    /\ result.ganttChart[5].end = 26

\* The strict order a non-preemptive policy selects by.
PolicyOrder(alg) ==
    [a, b \in Range(processes) |->
        IF alg = "FCFS" THEN ArrivalKeyLess(a, b)
        ELSE IF alg = "SJF" THEN a # b /\ SJFKeyLeq(a, b)
        ELSE a # b /\ PriorityKeyLeq(a, b)]

\* The timeline of the general non-preemptive loop on the set rem of
\* descriptors from time now on: idle to the next arrival when nothing has
\* arrived, otherwise run the arrived descriptor that comes before every other
\* arrived one to completion.
RECURSIVE GeneralLoop(_, _, _)
GeneralLoop(rem, now, before) ==
    IF rem = {} THEN <<>>
    ELSE LET arrived == { p \in rem : p.arrivalTime <= now }
         IN  IF arrived = {}
             THEN LET nextArrival == MathMin({ p.arrivalTime : p \in rem })
                  IN  <<GanttSegment(null, now, nextArrival)>>
                          \o GeneralLoop(rem, nextArrival, before)
             ELSE LET selected == CHOOSE p \in arrived :
                                      \A q \in arrived \ {p} : before[p, q]
                  IN  <<GanttSegment(selected.pid, now, now + selected.burstTime)>>
                          \o GeneralLoop(rem \ {selected}, now + selected.burstTime,
                                         before)

\* C23: the quantum is ignored outside Round Robin: for FCFS, SJF and
\* Priority the result of simulateSchedule is the same for every value of the
\* quantum argument (omitted, 2, any positive, zero or negative integer): it
\* is the metrics of a timeline that the list and the policy alone determine.
C23_QuantumIgnored ==
    (Returned /\ algorithm # "RoundRobin") =>
        /\ result.ganttChart
              = GeneralLoop(Range(processes), 0, PolicyOrder(algorithm))
        /\ result = ComputeMetrics(processes, result.ganttChart)

\* A run of SJF with a negative quantum returned a timeline of three
\* segments.
C23_Witness ==
    /\ Returned
    /\ algorithm = "SJF"
    /\ quantum < 0
    /\ Len(result.ganttChart) = 3

\* The end of the last segment of pid in timeline g, 0 when it has none.
LastEnd(g, pid) ==
    IF SegmentsOf(g, pid) = {} THEN 0
    ELSE g[CHOOSE k \in SegmentsOf(g, pid) : \A j \in SegmentsOf(g, pid) : j <= k].end

\* C24 as stated: turnaround floor: computeMetrics floors turnaroundTime at 0
\* just as it floors waitingTime, so for every process list and timeline it
\* is given, including a process that has no segment in the timeline and
\* arrivalTime > 0, the reported turnaroundTime is >= 0.
C24_TurnaroundFloor ==
    pc = "derived" =>
        \A i \in 1..Len(result.processMetrics) :
            result.processMetrics[i].turnaroundTime >= 0

\* C24: computeMetrics floors waitingTime and responseTime at 0 but not
\* turnaroundTime: for every process list and timeline it is given the
\* reported turnaroundTime is completionTime - arrivalTime, where
\* completionTime is the end of the process's last segment or 0 when it has
\* none; so it is -arrivalTime for a process that has no segment, and it is
\* >= 0 exactly when completionTime >= arrivalTime.  The reported waitingTime
\* is max(0, turnaroundTime - burstTime) and is >= 0.
C24_TurnaroundNotFloored ==
    pc = "derived" =>
        /\ Len(result.processMetrics) = Len(procs)
        /\ \A i \in 1..Len(result.processMetrics) :
              LET entry == result.processMetrics[i]
                  proc == CHOOSE p \in Range(procs) : p.pid = entry.pid
                  ct == LastEnd(gantt, entry.pid)
              IN  /\ entry.completionTime = ct
                  /\ entry.turnaroundTime = ct - proc.arrivalTime
                  /\ SegmentsOf(gantt, entry.pid) = {}
                        => entry.turnaroundTime = 0 - proc.arrivalTime
                  /\ entry.turnaroundTime >= 0 <=> ct >= proc.arrivalTime
                  /\ entry.waitingTime
                        = Max(0, entry.turnaroundTime - proc.burstTime)
                  /\ entry.waitingTime >= 0

\* computeMetrics was given a timeline with a segment of P1 only and a list
\* in which P2 arrives at 1: P2's turnaround time is -1 and its waiting
\* time 0.
C24_Witness ==
    /\ pc = "derived"
    /\ Len(procs) = 2
    /\ procs[2].arrivalTime = 1
    /\ Len(gantt) = 1
    /\ gantt[1].pid = "P1"
    /\ result.processMetrics[2].pid = "P2"
    /\ result.processMetrics[2].turnaroundTime = -1
    /\ result.processMetrics[2].waitingTime = 0

\* Burst time the Round Robin processes still need, plus the arrivals not yet
\* enqueued: what a run that completes brings down to 0.
RemainingWork ==
    SumTo([i \in 1..Len(allProcesses) |-> allProcesses[i].remainingBurst],
          Len(allProcesses))

\* C25: non-positive quantum: a RoundRobin run on a non-empty valid list with
\* quantum <= 0 still completes (each slice is at least 1 time unit, the
\* engine clamping the quantum) and emits only segments with end > start; it
\* never loops without advancing the clock and never moves the clock
\* backwards.  Completion is stated by its cause: every slice takes at least
\* 1 time unit off the burst time still needed.
C25_NonPositiveQuantum ==
    /\ [](algorithm = "RoundRobin" /\ quantum <= 0
            => \A k \in 1..Len(gantt) : gantt[k].end > gantt[k].start)
    /\ [][algorithm = "RoundRobin" /\ quantum <= 0 /\ pc = "RoundRobin"
            /\ pc' = "RoundRobin"
            => /\ currentTime' > currentTime
               /\ Len(readyQueue) > 0 => RemainingWork' < RemainingWork]_vars

\* A Round Robin run with quantum 0 has emitted three empty slices of P1 at
\* time 0 and P1 still needs all of its burst time.
C25_WitnessStuck ==
    /\ pc = "RoundRobin"
    /\ quantum = 0
    /\ Len(gantt) = 3
    /\ \A k \in 1..3 : gantt[k] = GanttSegment("P1", 0, 0)
    /\ currentTime = 0
    /\ allProcesses[1].remainingBurst = allProcesses[1].burstTime

\* s is the beginning of t.
IsPrefix(s, t) == Len(s) <= Len(t) /\ SubSeq(t, 1, Len(s)) = s

\* The timeline of the general non-preemptive loop that picks the minimum by
\* (arrivalTime, insertionOrder).
GeneralLoopByArrival ==
    GeneralLoop(Range(processes), 0,
                [a, b \in Range(processes) |-> ArrivalKeyLess(a, b)])

\* C26: FCFS as a single global sort is equivalent to the general
\* non-preemptive loop: for every valid input scheduleFCFS returns exactly the
\* timeline (idle segments included) that the loop 'filter arrived, idle to
\* the earliest arrival if none, else pick the minimum by (arrivalTime,
\* insertionOrder), run it to completion' returns; the timeline under
\* construction is a beginning of it at every iteration.
C26_FCFSGeneralLoop ==
    algorithm = "FCFS" =>
        /\ pc = "FCFS" => IsPrefix(gantt, GeneralLoopByArrival)
        /\ Returned => result.ganttChart = GeneralLoopByArrival

\* An FCFS run returned for a list in which two processes arrive together
\* after time 0 and the one listed later has the shorter burst: one idle
\* segment, then both in list order.
C26_Witness ==
    /\ Returned
    /\ algorithm = "FCFS"
    /\ Len(processes) = 2
    /\ processes[1].arrivalTime = 1 /\ processes[2].arrivalTime = 1
    /\ processes[1].burstTime > processes[2].burstTime
    /\ Len(result.ganttChart) = 3
    /\ result.ganttChart[1].pid = null
    /\ result.ganttChart[2].pid = "P1"

\* The quantum is at least every burst time of the input.
QuantumCoversBursts ==
    \A i \in 1..Len(processes) : quantum >= processes[i].burstTime

\* C27: Round Robin with a quantum that is >= every process's burstTime
\* degenerates to FCFS: for every valid input the RoundRobin timeline is
\* identical, segment for segment and idle segments included, to the FCFS
\* timeline of the same input (the timeline scheduleFCFS returns, which is
\* what an FCFS run of the input returns).
C27_RoundRobinDegenerates ==
    /\ (Returned /\ algorithm = "RoundRobin" /\ QuantumCoversBursts)
          => result.ganttChart = ScheduleFCFS(processes)
    /\ (Returned /\ algorithm = "FCFS")
          => result.ganttChart = ScheduleFCFS(processes)

\* A Round Robin run with quantum 3 returned for three processes of burst
\* 3, 2 and 3 arriving at 1, 1 and 2: after one idle segment P1, P2 and P3
\* each run once, in list order, P2 for less than the quantum.
C27_Witness ==
    /\ Returned
    /\ algorithm = "RoundRobin"
    /\ quantum = 3
    /\ Len(processes) = 3
    /\ processes[1].burstTime = 3 /\ processes[2].burstTime = 2
    /\ processes[3].burstTime = 3
    /\ processes[1].arrivalTime = 1 /\ processes[2].arrivalTime = 1
    /\ processes[3].arrivalTime = 2
    /\ result.ganttChart =
          <<GanttSegment(null, 0, 1), GanttSegment("P1", 1, 4),
            GanttSegment("P2", 4, 6), GanttSegment("P3", 6, 9)>>

\* The descriptor of the arrived ones in the pool that the policy selects.
SelectedOf(pool, now) ==
    LET arrived == { pool[i] : i \in { j \in 1..Len(pool) :
                                          pool[j].arrivalTime <= now } }
    IN  CHOOSE p \in arrived :
            \A q \in arrived :
                IF algorithm = "SJF" THEN SJFKeyLeq(p, q) ELSE PriorityKeyLeq(p, q)

\* C28: removal by identity in SJF and Priority: at every step the descriptor
\* removed from the remaining pool is the very descriptor that was selected
\* and given the segment, so each input descriptor is run exactly once (one
\* segment per descriptor, of the descriptor's burst time).  This holds for
\* every list of descriptors with pairwise-distinct insertionOrder, whatever
\* other fields (burstTime, priority, arrivalTime, pid) two descriptors share.
C28_RemovalByIdentity ==
    /\ [][(pc \in {"SJF", "Priority"} /\ Len(remaining') < Len(remaining))
            => LET selected == SelectedOf(remaining, currentTime)
               IN  /\ Range(remaining') = Range(remaining) \ {selected}
                   /\ gantt'[Len(gantt')]
                         = GanttSegment(selected.pid, currentTime,
                                        currentTime + selected.burstTime)]_vars
    /\ [](Returned /\ algorithm \in {"SJF", "Priority"}
            => LET ni == NonIdle(result.ganttChart)
               IN  /\ Len(ni) = Len(processes)
                   /\ \E order \in Permutations(1..Len(processes)) :
                         \A k \in 1..Len(ni) :
                             /\ ni[k].pid = processes[order[k]].pid
                             /\ Duration(ni[k]) = processes[order[k]].burstTime)

\* An SJF run returned for two descriptors that share the pid P1 and arrive
\* at 0, the first with burst 2 and the second with burst 1: the second ran
\* twice and the first never.
C28_WitnessRanTwice ==
    /\ Returned
    /\ algorithm = "SJF"
    /\ Len(processes) = 2
    /\ processes[1].pid = "P1" /\ processes[2].pid = "P1"
    /\ processes[1].burstTime = 2 /\ processes[2].burstTime = 1
    /\ result.ganttChart = <<GanttSegment("P1", 0, 1), GanttSegment("P1", 1, 2)>>

\* The idle segments of timeline g, in order.
IdleSegments(g) ==
    LET IsIdle(seg) == seg.pid = null
    IN  SelectSeq(g, IsIdle)

\* Total duration of the idle segments of g.
IdleTime(g) ==
    SumTo([k \in 1..Len(g) |-> IF g[k].pid = null THEN Duration(g[k]) ELSE 0],
          Len(g))

\* C29: the makespan does not depend on the policy: for the same valid input,
\* FCFS, SJF, Priority and RoundRobin (any quantum >= 1) produce timelines
\* with the same totalTime and exactly the same idle segments, hence the same
\* cpuUtilization (each policy is compared with the FCFS timeline of the
\* input); and totalTime = sum of all burstTimes + total idle duration.
C29_MakespanPolicyFree ==
    Returned =>
        LET fcfs == ScheduleFCFS(processes)
        IN  /\ result.totalTime = fcfs[Len(fcfs)].end
            /\ IdleSegments(result.ganttChart) = IdleSegments(fcfs)
            /\ result.cpuUtilization
                  = ComputeMetrics(processes, fcfs).cpuUtilization
            /\ result.totalTime
                  = TotalBurst + IdleTime(result.ganttChart)

\* An SJF run returned whose timeline differs from the FCFS timeline of its
\* input and has an idle segment after the first process.
C29_Witness ==
    /\ Returned
    /\ algorithm = "SJF"
    /\ result.ganttChart # ScheduleFCFS(processes)
    /\ Len(result.ganttChart) = 4
    /\ result.ganttChart[2].pid = null

\* The start of the first segment of pid in timeline g (pid has a segment).
FirstStart(g, pid) ==
    g[CHOOSE k \in SegmentsOf(g, pid) : \A j \in SegmentsOf(g, pid) : k <= j].start

\* C30: the zero floors in the metrics are never active for engine-produced
\* timelines: for every valid input, policy and quantum >= 1, each process
\* has a segment and satisfies completionTime >= arrivalTime + burstTime and
\* first segment start >= arrivalTime, so waitingTime = completionTime -
\* arrivalTime - burstTime and responseTime = first start - arrivalTime
\* exactly.
C30_FloorsInactive ==
    Returned =>
        \A i \in 1..Len(processes) :
            LET proc == processes[i]
                entry == MetricsEntry(proc.pid)
                firstStart == FirstStart(result.ganttChart, proc.pid)
            IN  /\ SegmentsOf(result.ganttChart, proc.pid) # {}
                /\ entry.completionTime = LastEnd(result.ganttChart, proc.pid)
                /\ entry.completionTime >= proc.arrivalTime + proc.burstTime
                /\ firstStart >= proc.arrivalTime
                /\ entry.waitingTime
                      = entry.completionTime - proc.arrivalTime - proc.burstTime
                /\ entry.responseTime = firstStart - proc.arrivalTime

\* A Round Robin run returned in which P2, arriving at 1 with burst 3, was
\* first started at 2 and completed at 6: waiting time 2, response time 1.
C30_Witness ==
    /\ Returned
    /\ algorithm = "RoundRobin"
    /\ Len(processes) = 2
    /\ processes[2].arrivalTime = 1
    /\ processes[2].burstTime = 3
    /\ MetricsEntry("P2").completionTime = 6
    /\ MetricsEntry("P2").waitingTime = 2
    /\ MetricsEntry("P2").responseTime = 1

\* C31: under the non-preemptive policies (FCFS, SJF, Priority) every
\* process's waitingTime equals its responseTime, for every valid input.
C31_WaitingIsResponse ==
    (Returned /\ algorithm \in {"FCFS", "SJF", "Priority"}) =>
        \A i \in 1..Len(result.processMetrics) :
            result.processMetrics[i].waitingTime
                = result.processMetrics[i].responseTime

\* A Priority run returned in which the process listed second waited 3 time
\* units for its only segment.
C31_Witness ==
    /\ Returned
    /\ algorithm = "Priority"
    /\ Len(processes) >= 2
    /\ MetricsEntry("P2").waitingTime = 3
    /\ MetricsEntry("P2").responseTime = 3
    /\ Cardinality(SegmentsOf(result.ganttChart, "P2")) = 1

\* Segments j < k of timeline g are two consecutive slices of one process.
ConsecutiveSlices(g, j, k) ==
    /\ j < k
    /\ g[j].pid # null
    /\ g[k].pid = g[j].pid
    /\ \A m \in (j + 1)..(k - 1) : g[m].pid # g[j].pid

\* C32: Round Robin bounded bypass: between two consecutive slices of the
\* same process p (p preempted, then run again), every other process is given
\* at most one slice, and no idle segment occurs.
C32_BoundedBypass ==
    algorithm = "RoundRobin" =>
        \A j, k \in 1..Len(gantt) :
            ConsecutiveSlices(gantt, j, k) =>
                /\ \A m \in (j + 1)..(k - 1) : gantt[m].pid # null
                /\ \A m, n \in (j + 1)..(k - 1) :
                       gantt[m].pid = gantt[n].pid => m = n

\* A Round Robin run of three processes returned in which two other
\* processes ran one slice each between two slices of P1.
C32_Witness ==
    /\ Returned
    /\ algorithm = "RoundRobin"
    /\ \E j \in 1..Len(gantt) :
          /\ j + 3 <= Len(gantt)
          /\ gantt[j].pid = "P1"
          /\ gantt[j + 3].pid = "P1"
          /\ {gantt[j + 1].pid, gantt[j + 2].pid} = {"P2", "P3"}

\* C33: Round Robin bounded response: for every valid input of n processes
\* and quantum q >= 1, every process's responseTime (first slice start minus
\* arrivalTime) is at most (n - 1) * q.
C33_BoundedResponse ==
    (Returned /\ algorithm = "RoundRobin") =>
        \A i \in 1..Len(processes) :
            LET proc == processes[i]
            IN  /\ MetricsEntry(proc.pid).responseTime
                      = FirstStart(result.ganttChart, proc.pid) - proc.arrivalTime
                /\ MetricsEntry(proc.pid).responseTime
                      <= (Len(processes) - 1) * quantum

\* A Round Robin run of three processes arriving together returned with
\* quantum 2 in which the last one was first started after two whole slices:
\* its response time is 4 = (3 - 1) * 2.
C33_Witness ==
    /\ Returned
    /\ algorithm = "RoundRobin"
    /\ quantum = 2
    /\ Len(processes) = 3
    /\ \A i \in 1..3 : processes[i].arrivalTime = 0
    /\ MetricsEntry("P3").responseTime = 4

\* The descriptors of list ps in ascending insertionOrder.
ByInsertionOrder(ps) ==
    SortBy(ps, [a, b \in Range(ps) |-> a.insertionOrder - b.insertionOrder])

\* C34: input order independence: for descriptors with unique pids and unique
\* insertionOrders, simulateSchedule returns the same timeline and the same
\* metrics for every permutation of the input list, under every policy: the
\* result of a run is the one computed for the list in ascending
\* insertionOrder (the timeline by the set of descriptors alone under the
\* non-preemptive policies), which all permutations of a list share.
C34_OrderIndependence ==
    Returned =>
        LET ordered == ByInsertionOrder(processes)
            timeline ==
                IF algorithm = "RoundRobin"
                THEN ScheduleRoundRobin(ordered, quantum)
                ELSE GeneralLoop(Range(processes), 0, PolicyOrder(algorithm))
        IN  /\ result.ganttChart = timeline
            /\ algorithm = "FCFS" => timeline = ScheduleFCFS(ordered)
            /\ result = ComputeMetrics(ordered, timeline)

\* A Round Robin run returned for a list of three descriptors arriving
\* together whose list order is the reverse of their insertion order; they
\* were started in insertion order.
C34_Witness ==
    /\ Returned
    /\ algorithm = "RoundRobin"
    /\ Len(processes) = 3
    /\ \A i \in 1..3 : /\ processes[i].insertionOrder = 3 - i
                       /\ processes[i].arrivalTime = 0
    /\ \A i \in 1..3 : result.ganttChart[i].pid = processes[4 - i].pid

\* C40: Round Robin ready-queue invariant: at the top of every loop iteration
\* (quantum >= 1, valid input with unique ids), the ready queue contains no
\* process twice, every queued process has arrivalTime <= currentTime and
\* remainingBurst > 0, every process before processIndex is either queued or
\* finished (remainingBurst = 0), and every process at or after processIndex
\* has arrivalTime > currentTime and remainingBurst = burstTime.
C40_ReadyQueue ==
    pc = "RoundRobin" =>
        /\ \A i, j \in 1..Len(readyQueue) : readyQueue[i] = readyQueue[j] => i = j
        /\ \A i \in 1..Len(readyQueue) :
              /\ readyQueue[i] \in 1..processIndex
              /\ allProcesses[readyQueue[i]].arrivalTime <= currentTime
              /\ allProcesses[readyQueue[i]].remainingBurst > 0
        /\ \A k \in 1..processIndex :
              \/ k \in Range(readyQueue)
              \/ allProcesses[k].remainingBurst = 0
        /\ \A k \in (processIndex + 1)..Len(allProcesses) :
              /\ allProcesses[k].arrivalTime > currentTime
              /\ allProcesses[k].remainingBurst = allProcesses[k].burstTime

\* At the top of an iteration the process that arrived during the first
\* slice is queued ahead of the preempted one, and a third process has not
\* arrived yet.
C40_Witness ==
    /\ pc = "RoundRobin"
    /\ Len(allProcesses) = 3
    /\ processIndex = 2
    /\ readyQueue = <<2, 1>>
    /\ allProcesses[1].remainingBurst < allProcesses[1].burstTime
    /\ allProcesses[2].remainingBurst = allProcesses[2].burstTime
    /\ allProcesses[3].arrivalTime > currentTime

\* ------------------------------------------------------------------ C35
\* C35: the process source keeps ids unique. After any sequence of the
\* table's Add Process, delete, Load Example and Clear All operations from
\* the empty table, the list handed to simulateSchedule has pairwise-distinct
\* pids.
C35_UniquePids ==
    pc = "call" =>
        \A i, j \in 1..Len(processes) : i # j => processes[i].pid # processes[j].pid

\* Add, Add, delete the first row, Add: the table holds two rows named P2 and
\* that list is handed to simulateSchedule.
C35_WitnessSharedPid ==
    /\ pc = "call"
    /\ Len(processes) = 2
    /\ processes[1].pid = "P2"
    /\ processes[2].pid = "P2"
    /\ processes[1].insertionOrder = 0
    /\ processes[2].insertionOrder = 1

\* ------------------------------------------------------------------ C36
\* C36: the process source keeps insertionOrder unique and strictly
\* increasing. After any sequence of the table's add, update, delete, Load
\* Example and Clear All operations, the descriptor at list position i
\* (counted from 0) has insertionOrder = i.
C36_InsertionOrderIsPosition ==
    pc = "table" =>
        \A i \in 1..Len(processes) : processes[i].insertionOrder = i - 1

\* The example was loaded, its first row deleted and the burst time of the
\* row that moved to the top edited to -1.
C36_Witness ==
    /\ pc = "table"
    /\ Len(processes) = 4
    /\ processes[1].pid = "P2"
    /\ processes[1].burstTime = -1
    /\ processes[1].insertionOrder = 0
    /\ processes[4].insertionOrder = 3
    /\ 1 \in DOMAIN rowErrors

\* ------------------------------------------------------------------ C37
\* A non-empty list every descriptor of which passes validateProcess.
PassesValidation(ps) ==
    /\ Len(ps) > 0
    /\ \A i \in 1..Len(ps) : ValidateProcess(AsPartial(ps[i])).valid

\* C37: validation gates simulation. In every interleaving of table edits,
\* presses of Run Simulation and callbacks of the 300 ms timer, every pending
\* callback holds, and every callback that fires hands to simulateSchedule, a
\* non-empty list in which every descriptor passes validateProcess; a list
\* with an invalid descriptor never reaches the engine.
C37_ValidationGates ==
    /\ [](\A k \in 1..Len(timers) : PassesValidation(timers[k].processes))
    /\ [][Len(timers') < Len(timers)
            => /\ PassesValidation(Head(timers).processes)
               /\ result' = SimulateSchedule(Head(timers).processes,
                                             Head(timers).algorithm,
                                             Head(timers).quantum)]_vars

\* A simulation of two rows was run and is on display, and the top row was
\* then edited to a burst time of -1: the table holds an invalid descriptor
\* and Run Simulation is disabled.
C37_Witness ==
    /\ pc = "table"
    /\ ~isRunning
    /\ HasResult
    /\ Len(result.processMetrics) = 2
    /\ Len(processes) = 2
    /\ processes[1].burstTime = -1
    /\ 1 \in DOMAIN rowErrors
    /\ ~CanRun(processes)

\* ------------------------------------------------------------------ C38
\* The progress after Step is pressed presses times from progress.
RECURSIVE AfterSteps(_, _, _, _)
AfterSteps(segments, totalTime, progress, presses) ==
    IF presses = 0 THEN progress
    ELSE AfterSteps(segments, totalTime,
                    StepProgress(segments, totalTime, progress), presses - 1)

\* C38: Step makes progress. On the timeline of a simulation of a non-empty
\* list, a press of Step while animationProgress < totalTime strictly
\* increases animationProgress, to the start of a later segment or to
\* totalTime, and pressing Step from progress 0 once more than there are
\* segments reaches totalTime.
C38_StepMakesProgress ==
    pc = "gantt" =>
        LET segments == result.ganttChart
            totalTime == result.totalTime
            stepped == StepProgress(segments, totalTime, animationProgress)
        IN  /\ FLess(animationProgress, FromInt(totalTime))
                  => /\ FLess(animationProgress, stepped)
                     /\ \/ stepped = FromInt(totalTime)
                        \/ \E k \in 1..Len(segments) :
                              stepped = FromInt(segments[k].start)
            /\ AfterSteps(segments, totalTime, Zero, Len(segments) + 1)
                   = FromInt(totalTime)

\* The chart of a timeline of two segments is at progress 0, where Step sets
\* the progress to the start of the first segment, 0, again.
C38_WitnessStuck ==
    /\ pc = "gantt"
    /\ Len(result.ganttChart) = 2
    /\ result.ganttChart[1].start = 0
    /\ animationProgress = Zero
    /\ StepProgress(result.ganttChart, result.totalTime, animationProgress) = Zero

\* ------------------------------------------------------------------ C39
\* The animation has played out: it stands at exactly totalTime and is paused.
PlayedOut ==
    animationProgress = FromInt(result.totalTime) /\ ~isPlaying

\* The whole sixteenths in a number x >= 0 below 2^10: floor(16 * x).
Sixteenths(x) ==
    IF x = Zero \/ Precision + x.e + 4 <= 0 THEN 0
    ELSE ValueOf(SubSeq(x.m, 1, Precision + x.e + 4))

\* C39: the animation stays in range and stops. Under any sequence of Play,
\* Pause, Step, Reset and ticks, animationProgress stays within
\* [0, totalTime]. While the animation plays the interval can tick; a tick
\* either moves the progress forward by at least one whole sixteenth, staying
\* below totalTime and leaving the animation playing, or sets the progress to
\* exactly totalTime and stops the animation; and only that last tick and the
\* Pause, Step and Reset controls stop the animation. So once Play is pressed
\* and no other control is used, at most 16 * totalTime ticks bring the
\* progress to exactly totalTime with isPlaying false.
C39_AnimationStops ==
    /\ [](pc = "gantt"
            => /\ ~animationProgress.neg
               /\ ~FLess(FromInt(result.totalTime), animationProgress)
               /\ isPlaying => Len(result.ganttChart) # 0)
    /\ [][Tick => \/ /\ isPlaying'
                     /\ FLess(animationProgress', FromInt(result.totalTime))
                     /\ Sixteenths(animationProgress') > Sixteenths(animationProgress)
                     /\ Sixteenths(animationProgress') < 16 * result.totalTime
                  \/ PlayedOut']_vars
    /\ [][isPlaying /\ ~isPlaying'
            => PlayedOut' \/ HandlePause \/ HandleStep \/ HandleAnimationReset]_vars

\* Play was pressed on a timeline of total time 3 and the ticks have brought
\* the progress strictly between 1 and 2, where no control puts it.
C39_Witness ==
    /\ pc = "gantt"
    /\ isPlaying
    /\ result.totalTime = 3
    /\ FLess(FromInt(1), animationProgress)
    /\ FLess(animationProgress, FromInt(2))

=============================================================================
